---- MODULE Spec2Model ----
(***************************************************************************)
(* Client-side prediction and reconciliation core of the agario client.   *)
(*                                                                         *)
(* Masses are exact rationals [n, d] (the code uses doubles; rounding of   *)
(* the last bit is not represented).  Positions are quantised to zones:    *)
(* an entity's centre lies inside a cell's collision radius iff both are   *)
(* in the same zone; visual mass and radius only feed these geometric      *)
(* tests.  A cell carries the fields its constructor in the code gives    *)
(* it: a visualMass where explodeOnVirus made it (and in SpecSmooth, which *)
(* studies smoothing), none where handleSplit or the initial game state    *)
(* made it.  Times are milliseconds.                                       *)
(***************************************************************************)
EXTENDS Integers, Sequences, FiniteSets, TLC

(* ---------------------------------------------------------------- bounds *)
(* latest timestamp a frame may reach: in Spec, in SpecMerge, and in the   *)
(* specifications whose frames all share one timestamp                     *)
MaxNow == 20000
MergeHorizon == 40000
TickHorizon == 0
(* splits a player starts with in SpecKeys and in SpecExplode *)
MaxKeyCells == 2
MaxSplitCount == 16
(* splits a player starts with in SpecSmooth and in SpecSteps *)
MaxSmoothCells == 1
(* pellets in the world of SpecPellets *)
MaxPellets == 2
(* entities that change zone in one frame; saturation of the tx counters   *)
MaxMovers == 1
MaxTx == 2
(* entries in one snapshot or batch message *)
MaxSnapshot == 2
(* the clock stops at RateHorizon ms in the world of SpecRate *)
RateHorizon == 150
(* local ejected masses in flight while the socket is closed *)
MaxOfflineEjected == 1
(* local ejected masses in flight in the world of SpecEjected *)
MaxEjected == 2
(* splits a player starts with in SpecMergers *)
MaxMergers == 3
(* splits a player starts with in SpecWall *)
MaxWallSplits == 2

(* ------------------------------------------- server-provided configuration *)
VIRUS_MASS == 100
VIRUS_EXPLODE_THRESHOLD == 133
EJECT_THRESHOLD == 35
EJECT_LOSS == 18
EJECT_MASS_GAIN == 13
EJECT_RANGE == 320
EJECT_SPEED == 350
SPLIT_THRESHOLD == 32
SPLIT_FLIGHT_DURATION == 1000
DECAY_RATE == [n |-> 2, d |-> 1000]
MASS_FLOOR == 10
MAX_CELLS == 16
UPDATE_INTERVAL == 50
WORLD_SIZE == 11000

Zones == {0, 1}
Outside(z) == 1 - z
(* time between two frames: none (nothing moves or decays), or 20 s, past  *)
(* the flight of a split and short of its merge delay                      *)
ClockSteps == {0, 20000}
(* cell masses around the split and eject thresholds; blob masses around   *)
(* the explosion threshold; the new mass an outcome carries                *)
KeyMasses == {31, 32, 35, 200}
BlobMasses == {132, 133, 150, 300}
NewMasses == {40}
PelletMasses == {1, 5}
(* gaps actual - visual: none, inside the snap range, at its edge (0.1)   *)
(* and outside it (0.11, 0.12), on either side                            *)
VisualGaps == {[n |-> 0, d |-> 1], [n |-> 1, d |-> 20], [n |-> -1, d |-> 20],
               [n |-> 1, d |-> 10], [n |-> -1, d |-> 10],
               [n |-> 11, d |-> 100], [n |-> -11, d |-> 100],
               [n |-> 3, d |-> 25], [n |-> -3, d |-> 25]}
(* where the second of two splits lies when the first is at 0; the radii  *)
(* of the two; their births: now, or 40 s ago and past the merge delay    *)
PairOffsets == {[n |-> 0, d |-> 1], [n |-> 1, d |-> 2000], [n |-> 5, d |-> 1],
                [n |-> -5, d |-> 1], [n |-> 25, d |-> 1], [n |-> 30, d |-> 1],
                [n |-> -30, d |-> 1], [n |-> 45, d |-> 1]}
PairRadii == {10, 20}
PairBirths == {0, -40000}
(* cell masses around 1.1 times the remote split (10) and 1.1 times the   *)
(* remote player (20) of Banquet                                          *)
EaterMasses == {10, 11, 21, 22}
(* ids an other-ejected-consumed message can name: the remote ejected     *)
(* mass of the worlds, and one the client does not hold                   *)
EjectedIds == {9, 5}
DecayMasses == {[n |-> 10, d |-> 1], [n |-> 52, d |-> 5], [n |-> 35, d |-> 1]}
(* cell masses just above the floor (10.4), at the eject threshold and at  *)
(* the explosion threshold                                                 *)
FloorMasses == {[n |-> 52, d |-> 5], [n |-> 35, d |-> 1], [n |-> 133, d |-> 1]}
Me == "me"
Other == "p2"
Null == "null"

(* values a consumingEntityId can take: a missing id, the literal 'main',  *)
(* the string `virus-split-${t}-${i}`, or a number                         *)
Undefined == [k |-> "undefined", t |-> 0, i |-> 0]
Main == [k |-> "main", t |-> 0, i |-> 0]
VirusSplitId(t, i) == [k |-> "virus-split", t |-> t, i |-> i]

(* ------------------------------------------------------ exact arithmetic *)
RECURSIVE GCD(_, _)
GCD(a, b) == IF b = 0 THEN a ELSE CHOOSE g \in {GCD(b, r) : r \in {a % b}} : TRUE

Norm(n, d) == LET g == GCD(n, d) IN [n |-> n \div g, d |-> d \div g]
Q(k) == [n |-> k, d |-> 1]
LCM(a, b) == (a \div GCD(a, b)) * b
QAdd(a, b) == LET l == LCM(a.d, b.d)
              IN Norm(a.n * (l \div a.d) + b.n * (l \div b.d), l)
QSub(a, b) == LET l == LCM(a.d, b.d)
              IN Norm(a.n * (l \div a.d) - b.n * (l \div b.d), l)
QMul(a, b) == Norm(a.n * b.n, a.d * b.d)
QDiv(a, k) == Norm(a.n, a.d * k)
QGe(a, b) == a.n * b.d >= b.n * a.d
QGt(a, b) == a.n * b.d > b.n * a.d
QMax(a, b) == IF QGe(a, b) THEN a ELSE b
QMin(a, b) == IF QGe(a, b) THEN b ELSE a
QAbs(a) == IF a.n < 0 THEN [n |-> 0 - a.n, d |-> a.d] ELSE a
QCeil(a) == (a.n + a.d - 1) \div a.d

RECURSIVE QSum(_)
QSum(s) ==
    IF s = <<>> THEN Q(0)
    ELSE CHOOSE r \in {QAdd(Head(s), t) : t \in {QSum(Tail(s))}} : TRUE

Masses(s) == [i \in 1..Len(s) |-> s[i].mass]

(* merge delay 30000 + 0.02333 * mass * 1000 ms; ages are whole            *)
(* milliseconds, so age >= mergeDelay iff age >= its ceiling.  The whole   *)
(* part of the mass is multiplied apart from its fraction, which keeps the *)
(* products small.                                                         *)
MergeDelayOf(m) ==
    LET whole == 2333 * (m.n \div m.d)
        rest == [n |-> (whole % 100) * m.d + 2333 * (m.n % m.d), d |-> 100 * m.d]
    IN 30000 + (whole \div 100) + QCeil(rest)

DecayUnfloored(m, dtMs) ==
    IF QGt(m, Q(MASS_FLOOR))
    THEN QSub(m, QMul(m, QMul(DECAY_RATE, Norm(dtMs, 1000))))
    ELSE m

(* mass -= mass * decayRate * dt, floored at 10; dt is given in ms         *)
Decay(m, dtMs) ==
    IF QGt(m, Q(MASS_FLOOR))
    THEN QMax(Q(MASS_FLOOR),
              QSub(m, QMul(m, QMul(DECAY_RATE, Norm(dtMs, 1000)))))
    ELSE m

GROWTH_OVERSHOOT == [n |-> 51, d |-> 25]

GROWTH_SMOOTH_FACTOR == [n |-> 2, d |-> 25]

SmoothStepNoSnap(visual, actual) ==
    IF visual # actual
    THEN QAdd(visual, QMul(QSub(actual, visual), GROWTH_SMOOTH_FACTOR))
    ELSE visual

(* the smoothing block of PlayerManager.update and SplitBlobManager.update *)
SmoothStep(visual, actual) ==
    IF visual # actual
    THEN LET massDiff == QSub(actual, visual)
         IN IF QGt(Norm(1, 10), QAbs(massDiff))
            THEN actual
            ELSE QAdd(visual, QMul(massDiff, GROWTH_SMOOTH_FACTOR))
    ELSE visual

(* a cell after the smoothing block; a cell built without a visual mass    *)
(* keeps none: mass - undefined is NaN, which the block never replaces by  *)
(* a number                                                                *)
Smoothed(c) ==
    IF "visualMass" \in DOMAIN c
    THEN [c EXCEPT !.visualMass = SmoothStep(@, c.mass)]
    ELSE c

(* ------------------------------------------------------------------ state *)
VARIABLES
    now,                \* Date.now()
    gameStarted,        \* GameCanvas gameStarted
    ws,                 \* WebSocketService.ws: "none" | "open"
    lastUpdateTime,     \* WebSocketService.lastUpdateTime
    playerIdRef,        \* useGameState playerIdRef
    START_MASS,         \* module-level START_MASS
    player,             \* gameState.player
    splits,             \* gameState.splits
    ejected,            \* gameState.ejected
    viruses,            \* gameState.viruses
    pellets,            \* gameState.pellets
    otherPlayers,       \* gameState.otherPlayers
    otherPlayerSplits,  \* gameState.otherPlayerSplits
    otherPlayerEjected, \* gameState.otherPlayerEjected
    virusProjectiles,   \* gameState.virusProjectiles
    pelletsMap,         \* useGameState pelletsMap
    virusesMap,         \* useGameState virusesMap
    virusProjectilesMap, \* useGameState virusProjectilesMap
    otherPlayersMap,    \* useGameState otherPlayersMap
    consumedEjectedIds, \* useGameState consumedEjectedIds
    reconnectInterval,  \* WebSocketService.reconnectInterval is set
    closing,            \* a socket closed by disconnect() has its close
                        \* event still to deliver
    server,             \* what the server holds: start mass and world snapshot
    net,                \* consumption intents transmitted and not yet answered,
                        \* stale once the local player has died since
    sent,               \* messages transmitted by the last handler
    tx,                 \* intents transmitted per target since its last outcome
    last                \* the last handler that ran, with the message it handled

vars == <<now, gameStarted, ws, lastUpdateTime, playerIdRef, START_MASS,
          player, splits, ejected, viruses, pellets, otherPlayers,
          otherPlayerSplits, otherPlayerEjected, consumedEjectedIds,
          virusProjectiles, pelletsMap, virusesMap, virusProjectilesMap,
          otherPlayersMap, reconnectInterval, closing, server, net, sent, tx,
          last>>

remote == <<viruses, pellets, otherPlayers, otherPlayerSplits, otherPlayerEjected, server>>

maps == <<virusProjectiles, pelletsMap, virusesMap, virusProjectilesMap, otherPlayersMap>>

link == <<reconnectInterval, closing>>

MapPush(m, k, v) == Append(m, <<k, v>>)

(* a Map: its entries <<key, value>> in insertion order; set() keeps the   *)
(* place of a key the map already holds                                    *)
MapSet(m, k, v) ==
    IF \E i \in 1..Len(m) : m[i][1] = k
    THEN [i \in 1..Len(m) |-> IF m[i][1] = k THEN <<k, v>> ELSE m[i]]
    ELSE Append(m, <<k, v>>)

MapDelete(m, k) == SelectSeq(m, LAMBDA e : e[1] # k)

MapHas(m, k) == \E i \in 1..Len(m) : m[i][1] = k

MapGet(m, k) == m[CHOOSE i \in 1..Len(m) : m[i][1] = k][2]

(* Array.from(map.values()) *)
MapValues(m) == [i \in 1..Len(m) |-> m[i][2]]

(* map.clear(); list.forEach(e => map.set(e.id, e)) *)
RECURSIVE SetAll(_, _)
SetAll(m, list) ==
    IF list = <<>> THEN m
    ELSE SetAll(MapSet(m, Head(list).id, Head(list)), Tail(list))

MapOf(list) == SetAll(<<>>, list)

NoArg == [type |-> "none"]
SnapWith(op, arg) == [op |-> op, arg |-> arg]
Snap(op) == SnapWith(op, NoArg)

PlayerKey(t, id) == <<"player", t, id>>
EjectedKey(id) == <<"ejected", "ejected", ToString(id)>>

Bump(f, k) == IF k \in DOMAIN f
              THEN [f EXCEPT ![k] = IF @ < MaxTx THEN @ + 1 ELSE @]
              ELSE [j \in DOMAIN f \cup {k} |-> IF j = k THEN 1 ELSE f[j]]
Clear(f, k) == [j \in DOMAIN f \ {k} |-> f[j]]
Count(f, k) == IF k \in DOMAIN f THEN f[k] ELSE 0
Empty == [j \in {} |-> 0]

(* the server acts on the first intent it receives for a target: later     *)
(* intents for the same target find it gone                                *)
Queue(f, k, m) == IF k \in DOMAIN f THEN f
                  ELSE [j \in DOMAIN f \cup {k} |->
                           IF j = k THEN [req |-> m, stale |-> FALSE] ELSE f[j]]

(* useGameState: initial gameState and refs *)
InitClient ==
    /\ now = 0
    /\ gameStarted = FALSE
    /\ ws = "none"
    /\ lastUpdateTime = 0
    /\ playerIdRef = Null
    /\ START_MASS = 25
    /\ player = [x |-> 0, mass |-> Q(25)]
    /\ splits = <<>>
    /\ ejected = <<>>
    /\ viruses = <<>>
    /\ pellets = <<>>
    /\ otherPlayers = <<>>
    /\ otherPlayerSplits = <<>>
    /\ otherPlayerEjected = <<>>
    /\ virusProjectiles = <<>>
    /\ pelletsMap = <<>>
    /\ virusesMap = <<>>
    /\ virusProjectilesMap = <<>>
    /\ otherPlayersMap = <<>>
    /\ consumedEjectedIds = {}
    /\ reconnectInterval = FALSE
    /\ closing = FALSE
    /\ net = Empty
    /\ sent = <<>>
    /\ tx = Empty
    /\ last = [op |-> "init", arg |-> NoArg]

(* ------------------------------------------------------------ InputHandler *)
SplitPieceWhole(c, t) ==
    [id |-> Undefined, x |-> c.x, mass |-> c.mass, born |-> t,
     mergeDelay |-> MergeDelayOf(c.mass)]

(* handleSplit on one cell: halves it in place and yields the other half   *)
SplitPiece(c, t) ==
    LET half == QDiv(c.mass, 2)
    IN [id |-> Undefined, x |-> c.x, mass |-> half, born |-> t,
        mergeDelay |-> MergeDelayOf(half)]

CanSplit(c) == QGe(c.mass, Q(SPLIT_THRESHOLD))

Halved(c) == IF CanSplit(c) THEN [c EXCEPT !.mass = QDiv(c.mass, 2)] ELSE c

RECURSIVE NewSplitsOf(_, _)
NewSplitsOf(s, t) ==
    IF s = <<>> THEN <<>>
    ELSE (IF CanSplit(Head(s)) THEN <<SplitPiece(Head(s), t)>> ELSE <<>>)
         \o NewSplitsOf(Tail(s), t)

handleSplit(p, s, t) ==
    [player |-> Halved(p),
     splits |-> [i \in 1..Len(s) |-> Halved(s[i])],
     newSplits |-> (IF CanSplit(p) THEN <<SplitPiece(p, t)>> ELSE <<>>)
                   \o NewSplitsOf(s, t)]

(* onKeyDown, key ' ' *)
KeySplit ==
    /\ gameStarted
    /\ LET r == handleSplit(player, splits, now)
       IN /\ player' = r.player
          /\ splits' = r.splits \o r.newSplits
    /\ sent' = <<>>
    /\ last' = Snap("split")
    /\ UNCHANGED <<now, gameStarted, ws, lastUpdateTime, playerIdRef,
                   START_MASS, ejected, remote, consumedEjectedIds, net, tx, maps, link>>

CanEjectAny(c) == TRUE

CanEject(c) == QGe(c.mass, Q(EJECT_THRESHOLD))

ShrunkByGain(c) == IF CanEject(c) THEN [c EXCEPT !.mass = QSub(c.mass, Q(EJECT_MASS_GAIN))] ELSE c

Shrunk(c) == IF CanEject(c) THEN [c EXCEPT !.mass = QSub(c.mass, Q(EJECT_LOSS))] ELSE c

EjectedFrom(c) == [x |-> Outside(c.x), travelled |-> 0, mass |-> Q(EJECT_MASS_GAIN)]

RECURSIVE NewEjectedOf(_)
NewEjectedOf(s) ==
    IF s = <<>> THEN <<>>
    ELSE (IF CanEject(Head(s)) THEN <<EjectedFrom(Head(s))>> ELSE <<>>)
         \o NewEjectedOf(Tail(s))

handleEject(p, s, e) ==
    [player |-> Shrunk(p),
     splits |-> [i \in 1..Len(s) |-> Shrunk(s[i])],
     ejected |-> e \o (IF CanEject(p) THEN <<EjectedFrom(p)>> ELSE <<>>)
                   \o NewEjectedOf(s)]

(* onKeyDown, key 'w' *)
KeyEject ==
    /\ gameStarted
    /\ LET r == handleEject(player, splits, ejected)
       IN /\ player' = r.player
          /\ splits' = r.splits
          /\ ejected' = r.ejected
    /\ sent' = <<>>
    /\ last' = Snap("eject")
    /\ UNCHANGED <<now, gameStarted, ws, lastUpdateTime, playerIdRef,
                   START_MASS, remote, consumedEjectedIds, net, tx, maps, link>>

(* ------------------------------------------------ useGameState callbacks *)
(* the game record g carries what one handler run reads and writes         *)
Game == [player |-> player, splits |-> splits, ejected |-> ejected,
         ids |-> consumedEjectedIds, out |-> <<>>, net |-> net, tx |-> tx]

TransmitAlways(g, m) == [g EXCEPT !.out = Append(@, m)]

(* WebSocketService.consumePellet / feedVirus / consumeVirus: sent only    *)
(* while the socket is OPEN                                                *)
Transmit(g, m) == IF ws = "open" THEN [g EXCEPT !.out = Append(@, m)] ELSE g

consumePelletSilent(g, id) == g

consumePellet(g, id) == Transmit(g, [type |-> "consume_pellet", id |-> id])

feedVirus(g, id) == Transmit(g, [type |-> "feed_virus", id |-> id])
consumeVirus(g, id) == Transmit(g, [type |-> "consume_virus", id |-> id])

(* consumingEntityIndex !== undefined && consumingEntityIndex >= 0: only a *)
(* number passes; a string id compares as NaN                              *)
IsIndex(cid) == cid.k = "number" /\ cid.i >= 0

NullSnapshot == [null |-> TRUE, x |-> 0, mass |-> Q(0)]

(* the snapshot {x, y, mass} of the consuming entity, or null              *)
SnapshotOf(g, ctype, cid) ==
    IF ctype = "player"
    THEN [null |-> FALSE, x |-> g.player.x, mass |-> g.player.mass]
    ELSE IF ctype = "split" /\ IsIndex(cid) /\ cid.i + 1 <= Len(g.splits)
         THEN [null |-> FALSE, x |-> g.splits[cid.i + 1].x,
               mass |-> g.splits[cid.i + 1].mass]
         ELSE NullSnapshot

(* consumingEntityId || 'main' *)
OrMain(cid) == IF cid.k = "undefined" \/ (cid.k = "number" /\ cid.i = 0)
               THEN Main ELSE cid

consumePlayer(g, targetId, targetType, ctype, cid) ==
    LET key == PlayerKey(targetType, targetId)
        m == [type |-> "consume_player", targetId |-> targetId,
              targetType |-> targetType, consumingEntityType |-> ctype,
              consumingEntityId |-> OrMain(cid), from |-> cid,
              consumingEntity |-> SnapshotOf(g, ctype, cid)]
    IN IF ws = "open"
       THEN [g EXCEPT !.out = Append(@, m), !.net = Queue(@, key, m),
                      !.tx = Bump(@, key)]
       ELSE g

consumeOtherEjectedUnchecked(g, ejectedId, ctype, cid) ==
    LET key == EjectedKey(ejectedId)
        m == [type |-> "consume_other_ejected", targetId |-> ToString(ejectedId),
              targetType |-> "ejected", consumingEntityType |-> ctype,
              consumingEntityId |-> OrMain(cid), from |-> cid,
              consumingEntity |-> SnapshotOf(g, ctype, cid)]
        g2 == [g EXCEPT !.ids = @ \cup {ejectedId}]
    IN IF ws = "open"
       THEN [g2 EXCEPT !.out = Append(@, m), !.net = Queue(@, key, m),
                       !.tx = Bump(@, key)]
       ELSE g2

consumeOtherEjected(g, ejectedId, ctype, cid) ==
    LET key == EjectedKey(ejectedId)
        m == [type |-> "consume_other_ejected", targetId |-> ToString(ejectedId),
              targetType |-> "ejected", consumingEntityType |-> ctype,
              consumingEntityId |-> OrMain(cid), from |-> cid,
              consumingEntity |-> SnapshotOf(g, ctype, cid)]
    IN IF ejectedId \in g.ids
       THEN g
       ELSE LET g2 == [g EXCEPT !.ids = @ \cup {ejectedId}]
            IN IF ws = "open"
               THEN [g2 EXCEPT !.out = Append(@, m), !.net = Queue(@, key, m),
                               !.tx = Bump(@, key)]
               ELSE g2

(* --------------------------------------------------------- EntityManagers *)
(* PlayerManager.update: move toward the pointer, smooth, decay *)
PlayerUpdate(g, px, dt) ==
    [g EXCEPT !.player = [Smoothed(@) EXCEPT !.x = px, !.mass = Decay(@, dt)]]

RemoveFirst(s, i) == Tail(s)

(* splice(i, 1), i counted from 1 *)
RemoveAt(s, i) == SubSeq(s, 1, i - 1) \o SubSeq(s, i + 1, Len(s))

RECURSIVE SpliceAll(_, _)
SpliceAll(s, toRemove) ==
    IF toRemove = <<>> THEN s
    ELSE SpliceAll(RemoveAt(s, Head(toRemove)), Tail(toRemove))

CanMergeOnContact(s, p, t) ==
    /\ t - s.born >= SPLIT_FLIGHT_DURATION
    /\ s.x = p.x

(* the merge test of SplitBlobManager.update *)
CanMerge(s, p, t) ==
    /\ t - s.born >= SPLIT_FLIGHT_DURATION
    /\ t - s.born >= s.mergeDelay
    /\ s.x = p.x

(* SplitBlobManager.update, the loop from the last split down to the first *)
RECURSIVE SplitsLoop(_, _, _, _, _, _)
SplitsLoop(g, i, toRemove, sx, t, dt) ==
    IF i = 0 THEN [g EXCEPT !.splits = SpliceAll(g.splits, toRemove)]
    ELSE LET s == [Smoothed(g.splits[i]) EXCEPT !.x = sx[i]]
         IN IF CanMerge(s, g.player, t)
            THEN SplitsLoop([g EXCEPT !.player.mass = QAdd(@, s.mass),
                                      !.splits[i] = s],
                            i - 1, Append(toRemove, i), sx, t, dt)
            ELSE SplitsLoop([g EXCEPT !.splits[i] =
                                 [s EXCEPT !.mass = Decay(s.mass, dt)]],
                            i - 1, toRemove, sx, t, dt)

SplitBlobManagerUpdate(g, sx, t, dt) ==
    SplitsLoop(g, Len(g.splits), <<>>, sx, t, dt)

(* EjectedManager.update *)
EjectedManagerUpdate(g, ex, dt) ==
    [g EXCEPT !.ejected =
        [i \in 1..Len(g.ejected) |->
            [x |-> ex[i],
             mass |-> g.ejected[i].mass,
             travelled |-> IF g.ejected[i].travelled < EJECT_RANGE
                           THEN g.ejected[i].travelled + (EJECT_SPEED * dt) \div 1000
                           ELSE g.ejected[i].travelled]]]

(* ------------------------------------------------------ CollisionDetection *)
(* handleSplitBlobCollisions: a split still inside its merge delay that    *)
(* overlaps the player is pushed outside it                                *)
handleSplitBlobCollisions(g, t) ==
    [g EXCEPT !.splits =
        [i \in 1..Len(g.splits) |->
            IF t - g.splits[i].born < g.splits[i].mergeDelay
               /\ g.splits[i].x = g.player.x
            THEN [g.splits[i] EXCEPT !.x = Outside(g.player.x)]
            ELSE g.splits[i]]]

PushForceNone(overlap) == Q(0)

(* pushForce = overlap * 0.5 *)
PushForce(overlap) == QMul(overlap, Norm(1, 2))

(* handleSplitBlobCollisions, the body of the loop over pairs of splits,   *)
(* on a line: x is a coordinate, radius the split's radiusFromMass of its  *)
(* visual mass, a the cosine (-1 or 1) of the random angle                 *)
SeparatePair(s1, s2, t, a) ==
    LET s1CannotMerge == t - s1.born < s1.mergeDelay
        s2CannotMerge == t - s2.born < s2.mergeDelay
        dx == QSub(s2.x, s1.x)
        d == QAbs(dx)
        minD == QAdd(s1.radius, s2.radius)
        nx == IF dx.n < 0 THEN Q(-1) ELSE Q(1)
        move == QMul(nx, QMul(PushForce(QSub(minD, d)), Norm(1, 2)))
        minSep == Q(2 * a)
    IN IF s1CannotMerge \/ s2CannotMerge
       THEN IF QGt(minD, d) /\ QGt(d, Norm(1, 1000))
            THEN <<[s1 EXCEPT !.x = QSub(@, move)], [s2 EXCEPT !.x = QAdd(@, move)]>>
            ELSE IF QGe(Norm(1, 1000), d)
            THEN <<[s1 EXCEPT !.x = QSub(@, minSep)], [s2 EXCEPT !.x = QAdd(@, minSep)]>>
            ELSE <<s1, s2>>
       ELSE <<s1, s2>>

clampNever(x, radius) == x

(* clampToWorld on one axis *)
clampToWorld(x, radius) ==
    QMin(QMax(x, radius), QSub(Q(WORLD_SIZE), radius))

(* handleSplitBlobCollisions, the body of the loop of splits against the   *)
(* player, on a line: a split inside its merge delay that overlaps the     *)
(* player is put at distance minD from it                                  *)
PushFromPlayer(s, p, t, a) ==
    LET dx == QSub(s.x, p.x)
        d == QAbs(dx)
        minD == QAdd(p.radius, s.radius)
        nx == IF dx.n < 0 THEN Q(-1) ELSE Q(1)
    IN IF t - s.born < s.mergeDelay
       THEN IF QGt(Norm(1, 1000), d)
            THEN [s EXCEPT !.x = QAdd(p.x, QMul(Q(a), minD))]
            ELSE IF QGt(minD, d)
            THEN [s EXCEPT !.x = QAdd(p.x, QMul(nx, minD))]
            ELSE s
       ELSE s

(* the loop over the pairs i < j of splits *)
RECURSIVE PairLoop(_, _, _, _, _)
PairLoop(ss, i, j, t, a) ==
    IF i > Len(ss) THEN ss
    ELSE IF j > Len(ss) THEN PairLoop(ss, i + 1, i + 2, t, a)
    ELSE LET r == SeparatePair(ss[i], ss[j], t, a)
         IN PairLoop([ss EXCEPT ![i] = r[1], ![j] = r[2]], i, j + 1, t, a)

(* handleSplitBlobCollisions on a line: the iterations that are left *)
RECURSIVE Separated(_, _, _, _, _)
Separated(p, ss, t, a, iterations) ==
    IF iterations = 0 THEN ss
    ELSE Separated(p,
                   PairLoop([i \in 1..Len(ss) |-> PushFromPlayer(ss[i], p, t, a)],
                            1, 2, t, a),
                   t, a, iterations - 1)

(* index of the first element of s from index i on that satisfies P, or 0 *)
FirstFrom(s, i, P(_)) ==
    LET S == {k \in i..Len(s) : P(s[k])}
    IN IF S = {} THEN 0 ELSE CHOOSE k \in S : \A m \in S : k <= m

(* index of the last element of s up to index i that satisfies P, or 0 *)
LastUpTo(s, i, P(_)) ==
    LET S == {k \in 1..i : P(s[k])}
    IN IF S = {} THEN 0 ELSE CHOOSE k \in S : \A m \in S : k >= m

RECURSIVE EjectedLoop(_, _, _)
EjectedLoop(g, vs, i) ==
    IF i = 0 THEN g
    ELSE LET p == g.ejected[i]
             At(e) == e.x = p.x
             v == LastUpTo(vs, Len(vs), At)
             j == FirstFrom(g.splits, 1, At)
             rest == RemoveAt(g.ejected, i)
         IN IF v # 0
            THEN EjectedLoop([feedVirus(g, vs[v].id) EXCEPT !.ejected = rest],
                             vs, i - 1)
            ELSE IF p.x = g.player.x
            THEN EjectedLoop([g EXCEPT !.player.mass = QAdd(@, p.mass),
                                       !.ejected = rest], vs, i - 1)
            ELSE IF j # 0
            THEN EjectedLoop([g EXCEPT !.splits[j].mass = QAdd(@, p.mass),
                                       !.ejected = rest], vs, i - 1)
            ELSE EjectedLoop(g, vs, i - 1)

checkEjectedVirusesLast(g, vs) == EjectedLoop(g, <<>>, Len(g.ejected))

(* checkEjectedCollisions, from the last projectile down *)
checkEjectedCollisions(g, vs) == EjectedLoop(g, vs, Len(g.ejected))

RECURSIVE PelletLoop(_, _, _)
PelletLoop(g, ps, i) ==
    IF i = 0 THEN g
    ELSE LET pel == ps[i]
             At(e) == e.x = pel.x
             j == FirstFrom(g.splits, 1, At)
         IN IF pel.x = g.player.x
            THEN PelletLoop(consumePellet(
                     [g EXCEPT !.player.mass = QAdd(@, pel.mass)], pel.id),
                     ps, i - 1)
            ELSE IF j # 0
            THEN PelletLoop(consumePellet(
                     [g EXCEPT !.splits[j].mass = QAdd(@, pel.mass)], pel.id),
                     ps, i - 1)
            ELSE PelletLoop(g, ps, i - 1)

checkPelletCollisions(g, ps) == PelletLoop(g, ps, Len(ps))

Min(a, b) == IF a <= b THEN a ELSE b
Max(a, b) == IF a >= b THEN a ELSE b

(* Math.floor(blob.mass / 12.5) *)
FloorDiv12_5(m) == (2 * m.n) \div (25 * m.d)

PiecesToCreate(blobMass, currentSplitCount) ==
    Max(4, Min(FloorDiv12_5(blobMass), MAX_CELLS - (currentSplitCount + 1)))

MassPerPieceSkipsBlob(totalMass, piecesToCreate) == QDiv(totalMass, piecesToCreate)

(* totalMass / (piecesToCreate + 1) *)
MassPerPiece(totalMass, piecesToCreate) == QDiv(totalMass, piecesToCreate + 1)

(* explodeOnVirus: the blob's new mass and the pieces it returns *)
explodeOnVirus(blobMass, virusX, currentSplitCount, t) ==
    IF MAX_CELLS - (currentSplitCount + 1) <= 0
    THEN [mass |-> QAdd(blobMass, Q(VIRUS_MASS)), pieces |-> <<>>]
    ELSE LET n == PiecesToCreate(blobMass, currentSplitCount)
             massPerPiece == MassPerPiece(QAdd(blobMass, Q(VIRUS_MASS)), n)
         IN [mass |-> massPerPiece,
             pieces |-> [i \in 1..n |->
                 [id |-> VirusSplitId(t, i - 1), x |-> virusX,
                  mass |-> massPerPiece, visualMass |-> massPerPiece,
                  born |-> t, mergeDelay |-> MergeDelayOf(massPerPiece)]]]

CanExplode(c, v) == c.x = v.x /\ QGe(c.mass, Q(VIRUS_EXPLODE_THRESHOLD))

(* checkVirusCollisions, from the last virus down; the split count passed  *)
(* to explodeOnVirus is that of the list the frame started with            *)
RECURSIVE VirusLoop(_, _, _, _, _)
VirusLoop(g, vs, i, newPieces, t) ==
    IF i = 0 THEN [g |-> g, newPieces |-> newPieces]
    ELSE LET v == vs[i]
             Hit(c) == CanExplode(c, v)
             j == FirstFrom(g.splits, 1, Hit)
         IN IF CanExplode(g.player, v)
            THEN LET r == explodeOnVirus(g.player.mass, v.x, Len(g.splits), t)
                 IN VirusLoop(consumeVirus([g EXCEPT !.player.mass = r.mass], v.id),
                              vs, i - 1, newPieces \o r.pieces, t)
            ELSE IF j # 0
            THEN LET r == explodeOnVirus(g.splits[j].mass, v.x, Len(g.splits), t)
                 IN VirusLoop(consumeVirus([g EXCEPT !.splits[j].mass = r.mass], v.id),
                              vs, i - 1, newPieces \o r.pieces, t)
            ELSE VirusLoop(g, vs, i - 1, newPieces, t)

(* checkVirusCollisions followed by gameState.splits.push(...pieces) *)
checkVirusCollisions(g, vs, t) ==
    LET r == VirusLoop(g, vs, Len(vs), <<>>, t)
    IN [r.g EXCEPT !.splits = @ \o r.newPieces]

OutweighsBare(m, o) == QGe(m, o)

(* mass >= other.mass * 1.1 *)
Outweighs(m, o) == QGe(m, QMul(o, Norm(11, 10)))

(* one local cell against the remote players, then the remote splits;      *)
(* yields the intent it would emit, or Null                                *)
CellVsOthers(c, ctype, cid, ops, oss, myId) ==
    LET EatP(o) == Outweighs(c.mass, o.mass) /\ o.x = c.x
        EatS(o) == o.playerId # myId /\ Outweighs(c.mass, o.mass) /\ o.x = c.x
        a == FirstFrom(ops, 1, EatP)
        b == FirstFrom(oss, 1, EatS)
    IN [p |-> a, s |-> b]

RECURSIVE SplitsVsOthers(_, _, _, _, _)
SplitsVsOthers(g, i, ops, oss, myId) ==
    IF i > Len(g.splits) THEN g
    ELSE LET c == g.splits[i]
             h == CellVsOthers(c, "split", c.id, ops, oss, myId)
         IN IF h.p # 0
            THEN consumePlayer(g, ops[h.p].id, "player", "split", c.id)
            ELSE IF h.s # 0
            THEN consumePlayer(g, ToString(oss[h.s].id), "split", "split", c.id)
            ELSE SplitsVsOthers(g, i + 1, ops, oss, myId)

checkPlayerVsOtherPlayersCollisions(g, ops, oss, myId) ==
    LET h == CellVsOthers(g.player, "player", Main, ops, oss, myId)
    IN IF h.p # 0
       THEN consumePlayer(g, ops[h.p].id, "player", "player", Main)
       ELSE IF h.s # 0
       THEN consumePlayer(g, ToString(oss[h.s].id), "split", "player", Main)
       ELSE SplitsVsOthers(g, 1, ops, oss, myId)

RECURSIVE SplitsVsEjected(_, _, _)
SplitsVsEjected(g, i, oes) ==
    IF i > Len(g.splits) THEN g
    ELSE LET c == g.splits[i]
             At(e) == e.x = c.x
             k == LastUpTo(oes, Len(oes), At)
         IN IF k # 0
            THEN consumeOtherEjected(g, oes[k].id, "split", c.id)
            ELSE SplitsVsEjected(g, i + 1, oes)

checkPlayerVsOtherEjectedGreedy(g, oes) ==
    LET At(e) == e.x = g.player.x
        k == LastUpTo(oes, Len(oes), At)
    IN IF k # 0
       THEN [consumeOtherEjected(g, oes[k].id, "player", Main)
                EXCEPT !.player.mass = QAdd(@, Q(EJECT_MASS_GAIN))]
       ELSE SplitsVsEjected(g, 1, oes)

checkPlayerVsOtherEjectedCollisions(g, oes) ==
    LET At(e) == e.x = g.player.x
        k == LastUpTo(oes, Len(oes), At)
    IN IF k # 0
       THEN consumeOtherEjected(g, oes[k].id, "player", Main)
       ELSE SplitsVsEjected(g, 1, oes)

SendsUpdateEager(t) == ws = "open"

(* WebSocketService.sendPlayerUpdate: at most one update per 50 ms *)
SendsUpdate(t) == ws = "open" /\ t - lastUpdateTime >= UPDATE_INTERVAL

(* --------------------------------------------------------------- gameLoop *)
(* the zones a sequence of entities can reach in one frame: nothing moves  *)
(* when dt = 0, and at most MaxMovers of them change zone otherwise        *)
RECURSIVE MovesOf(_, _)
MovesOf(stay, k) ==
    IF k = 0 THEN {stay}
    ELSE {[f EXCEPT ![i] = z] :
             f \in MovesOf(stay, k - 1), i \in DOMAIN stay, z \in Zones}
         \cup {stay}

Moves(s, dt) ==
    LET stay == [i \in 1..Len(s) |-> s[i].x]
    IN IF dt = 0 THEN {stay} ELSE MovesOf(stay, MaxMovers)

FrameResultPelletsFirst(px, sx, ex, t, dt) ==
    LET s1 == {PlayerUpdate(Game, px, dt)}
        s2 == {SplitBlobManagerUpdate(g, sx, t, dt) : g \in s1}
        s3 == {handleSplitBlobCollisions(g, t) : g \in s2}
        s4 == {EjectedManagerUpdate(g, ex, dt) : g \in s3}
        s5 == {checkPelletCollisions(g, pellets) : g \in s4}
        s6 == {checkEjectedCollisions(g, viruses) : g \in s5}
        s7 == {checkVirusCollisions(g, viruses, t) : g \in s6}
        s8 == {checkPlayerVsOtherPlayersCollisions(g, otherPlayers,
                  otherPlayerSplits, IF playerIdRef = Null THEN "" ELSE playerIdRef) :
               g \in s7}
    IN CHOOSE r \in {checkPlayerVsOtherEjectedCollisions(g, otherPlayerEjected) :
                        g \in s8} : TRUE

(* one pass of gameLoop over the game record, in the order of its calls *)
FrameResult(px, sx, ex, t, dt) ==
    LET s1 == {PlayerUpdate(Game, px, dt)}
        s2 == {SplitBlobManagerUpdate(g, sx, t, dt) : g \in s1}
        s3 == {handleSplitBlobCollisions(g, t) : g \in s2}
        s4 == {EjectedManagerUpdate(g, ex, dt) : g \in s3}
        s5 == {checkEjectedCollisions(g, viruses) : g \in s4}
        s6 == {checkPelletCollisions(g, pellets) : g \in s5}
        s7 == {checkVirusCollisions(g, viruses, t) : g \in s6}
        s8 == {checkPlayerVsOtherPlayersCollisions(g, otherPlayers,
                  otherPlayerSplits, IF playerIdRef = Null THEN "" ELSE playerIdRef) :
               g \in s7}
    IN CHOOSE r \in {checkPlayerVsOtherEjectedCollisions(g, otherPlayerEjected) :
                        g \in s8} : TRUE

FrameBy(steps, horizon) ==
    /\ gameStarted
    /\ \E step \in steps :
         /\ now + step <= horizon
         /\ \E px \in (IF step = 0 THEN {player.x} ELSE Zones),
               sx \in Moves(splits, step), ex \in Moves(ejected, step) :
              \E g \in {FrameResult(px, sx, ex, now + step, step)} :
                 /\ now' = now + step
                 /\ player' = g.player
                 /\ splits' = g.splits
                 /\ ejected' = g.ejected
                 /\ consumedEjectedIds' = g.ids
                 /\ net' = g.net
                 /\ tx' = g.tx
                 /\ sent' = IF SendsUpdate(now + step)
                            THEN Append(g.out, [type |-> "player_update"])
                            ELSE g.out
                 /\ lastUpdateTime' = IF SendsUpdate(now + step)
                                      THEN now + step ELSE lastUpdateTime
    /\ last' = Snap("frame")
    /\ UNCHANGED <<gameStarted, ws, playerIdRef, START_MASS, remote, maps, link>>

FrameUpTo(horizon) == FrameBy(ClockSteps, horizon)

Frame == FrameUpTo(MaxNow)

FrameMerge == FrameUpTo(MergeHorizon)

FrameTick == FrameUpTo(TickHorizon)

(* handleStartGame *)
StartGame ==
    /\ ~gameStarted
    /\ gameStarted' = TRUE
    /\ sent' = <<>>
    /\ last' = Snap("start")
    /\ UNCHANGED <<now, ws, lastUpdateTime, playerIdRef, START_MASS, player,
                   splits, ejected, remote, consumedEjectedIds, net, tx, maps, link>>

(* ------------------------------------------------------ server messages *)
(* worlds the server can hold when the client connects *)
Rivals ==
    [startMass |-> 40,
     pellets |-> <<>>,
     viruses |-> <<>>,
     players |-> <<[id |-> Other, x |-> 0, mass |-> Q(20)]>>,
     playerSplits |-> <<[id |-> 7, playerId |-> Other, x |-> 1, mass |-> Q(10)]>>,
     playerEjected |-> <<[id |-> 9, playerId |-> Other, x |-> 1]>>]

Hazards ==
    [startMass |-> 300,
     pellets |-> <<>>,
     viruses |-> <<[id |-> 1, x |-> 0], [id |-> 2, x |-> 1]>>,
     players |-> <<>>,
     playerSplits |-> <<>>,
     playerEjected |-> <<[id |-> 9, playerId |-> Other, x |-> 1]>>]

(* a world that holds something of every kind a cell can eat *)
Banquet ==
    [startMass |-> 25,
     pellets |-> <<[id |-> 1, x |-> 1, mass |-> Q(1)]>>,
     viruses |-> <<>>,
     players |-> <<[id |-> Other, x |-> 0, mass |-> Q(20)]>>,
     playerSplits |-> <<[id |-> 7, playerId |-> Other, x |-> 1, mass |-> Q(10)]>>,
     playerEjected |-> <<[id |-> 9, playerId |-> Other, x |-> 0]>>]

(* a world that holds one virus *)
Minefield ==
    [startMass |-> 25, pellets |-> <<>>, viruses |-> <<[id |-> 1, x |-> 1]>>,
     players |-> <<>>, playerSplits |-> <<>>, playerEjected |-> <<>>]

(* a world with something for every intent: a pellet, a virus, a remote   *)
(* player, its split and its ejected mass                                  *)
Buffet == [Banquet EXCEPT !.viruses = <<[id |-> 1, x |-> 1]>>]

(* a world in which the server echoes the local player's own split and    *)
(* ejected mass back in the remote lists                                  *)
Mirror ==
    [Banquet EXCEPT
        !.playerSplits = <<[id |-> 7, playerId |-> Me, x |-> 1, mass |-> Q(10)]>>,
        !.playerEjected = <<[id |-> 9, playerId |-> Me, x |-> 0]>>]

(* a world that holds only the pellets ps *)
Pasture(ps) ==
    [startMass |-> 25, pellets |-> ps, viruses |-> <<>>, players |-> <<>>,
     playerSplits |-> <<>>, playerEjected |-> <<>>]

(* WebSocketService.connect: ws.onopen, which stops the reconnect timer *)
WsOpen ==
    /\ ws = "none"
    /\ ws' = "open"
    /\ reconnectInterval' = FALSE
    /\ sent' = <<>>
    /\ last' = Snap("open")
    /\ UNCHANGED <<now, gameStarted, lastUpdateTime, playerIdRef, START_MASS,
                   player, splits, ejected, remote, consumedEjectedIds, net, tx,
                   maps, closing>>

(* ws.onclose: the socket is there and no longer OPEN; attemptReconnect   *)
(* starts the reconnect timer                                             *)
WsClose ==
    /\ ws = "open"
    /\ ws' = "closed"
    /\ reconnectInterval' = TRUE
    /\ sent' = <<>>
    /\ last' = Snap("close")
    /\ UNCHANGED <<now, gameStarted, lastUpdateTime, playerIdRef, START_MASS,
                   player, splits, ejected, remote, consumedEjectedIds, net, tx,
                   maps, closing>>

(* WebSocketService.disconnect: stops the reconnect timer, closes the     *)
(* socket and drops it; the close event of that socket comes later        *)
Disconnect ==
    /\ ws # "none"
    /\ ws' = "none"
    /\ reconnectInterval' = FALSE
    /\ closing' = TRUE
    /\ sent' = <<>>
    /\ last' = Snap("disconnect")
    /\ UNCHANGED <<now, gameStarted, lastUpdateTime, playerIdRef, START_MASS,
                   player, splits, ejected, remote, consumedEjectedIds, net, tx,
                   maps>>

(* ws.onclose of the socket that disconnect() closed: attemptReconnect    *)
(* starts the reconnect timer unless one is running                       *)
DroppedSocketClosed ==
    /\ closing
    /\ closing' = FALSE
    /\ reconnectInterval' = TRUE
    /\ sent' = <<>>
    /\ last' = Snap("dropped_close")
    /\ UNCHANGED <<now, gameStarted, ws, lastUpdateTime, playerIdRef, START_MASS,
                   player, splits, ejected, remote, consumedEjectedIds, net, tx,
                   maps>>

(* the callback of the reconnect timer: connect(), and ws.onopen of the   *)
(* new socket, which stops the timer                                      *)
ReconnectTick ==
    /\ reconnectInterval
    /\ ws' = "open"
    /\ reconnectInterval' = FALSE
    /\ sent' = <<>>
    /\ last' = Snap("reconnect_tick")
    /\ UNCHANGED <<now, gameStarted, lastUpdateTime, playerIdRef, START_MASS,
                   player, splits, ejected, remote, consumedEjectedIds, net, tx,
                   maps, closing>>

(* WebSocketService.reconnect: disconnect() drops the socket, resetState() *)
(* rewinds the send clock; connect() follows after a delay                 *)
Reconnect ==
    /\ ws = "open"
    /\ ws' = "none"
    /\ lastUpdateTime' = 0
    /\ reconnectInterval' = FALSE
    /\ closing' = TRUE
    /\ sent' = <<>>
    /\ last' = Snap("reconnect")
    /\ UNCHANGED <<now, gameStarted, playerIdRef, START_MASS, player, splits,
                   ejected, remote, consumedEjectedIds, net, tx, maps>>

(* handleMessage 'init': player id, configuration, snapshots *)
ServerInit ==
    /\ ws = "open"
    /\ playerIdRef = Null
    /\ START_MASS' = server.startMass
    /\ player' = [x |-> 0, mass |-> Q(server.startMass)]
    /\ playerIdRef' = Me
    /\ pelletsMap' = MapOf(server.pellets)
    /\ pellets' = MapValues(pelletsMap')
    /\ virusesMap' = MapOf(server.viruses)
    /\ viruses' = MapValues(virusesMap')
    /\ otherPlayersMap' = MapOf(server.players)
    /\ otherPlayers' = MapValues(otherPlayersMap')
    /\ otherPlayerSplits' = server.playerSplits
    /\ otherPlayerEjected' = server.playerEjected
    /\ sent' = <<>>
    /\ last' = Snap("config")
    /\ UNCHANGED <<now, gameStarted, ws, lastUpdateTime, splits, ejected,
                   consumedEjectedIds, server, net, tx, virusProjectiles,
                   virusProjectilesMap, link>>

Without(s, P(_)) == SelectSeq(s, LAMBDA e : ~P(e))

(* the consumer branch shared by the outcome handlers: the new mass goes   *)
(* to the player, or to splits[consumingEntityIndex]                       *)
ApplyNewMass(p, s, ctype, cid, newMass) ==
    IF ctype = "player"
    THEN [player |-> [p EXCEPT !.mass = Q(newMass)], splits |-> s]
    ELSE IF ctype = "split" /\ IsIndex(cid) /\ cid.i + 1 <= Len(s)
         THEN [player |-> p,
               splits |-> [s EXCEPT ![cid.i + 1].mass = Q(newMass)]]
         ELSE [player |-> p, splits |-> s]

(* onPlayerConsumed, the local player is the victim *)
Death ==
    /\ ws = "open"
    /\ playerIdRef # Null
    /\ \E z \in Zones : player' = [x |-> z, mass |-> Q(START_MASS)]
    /\ splits' = <<>>
    /\ ejected' = <<>>
    /\ sent' = <<>>
    /\ tx' = [k \in {j \in DOMAIN tx : j[1] = "ejected"} |-> tx[k]]
    /\ last' = SnapWith("death", [type |-> "player_consumed", targetId |-> Me])
    /\ net' = [k \in DOMAIN net |-> [net[k] EXCEPT !.stale = TRUE]]
    /\ UNCHANGED <<now, gameStarted, ws, lastUpdateTime, playerIdRef,
                   START_MASS, remote, consumedEjectedIds, maps, link>>

(* onPlayerConsumed, answering a consume_player intent of this client *)
PlayerConsumed ==
    /\ ws = "open"
    /\ playerIdRef # Null
    /\ \E key \in DOMAIN net, newMass \in NewMasses :
         /\ net[key].req.type = "consume_player"
         /\ LET r == net[key].req
                a == ApplyNewMass(player, splits, r.consumingEntityType,
                                  r.consumingEntityId, newMass)
                Theirs(e) == e.playerId = r.targetId
                It(e) == e.id = r.targetId
                ItsSplit(e) == ToString(e.id) = r.targetId
            IN /\ player' = a.player
               /\ splits' = a.splits
               /\ IF r.targetType = "player"
                  THEN /\ otherPlayersMap' = MapDelete(otherPlayersMap, r.targetId)
                       /\ otherPlayers' = MapValues(otherPlayersMap')
                       /\ otherPlayerSplits' = Without(otherPlayerSplits, Theirs)
                       /\ otherPlayerEjected' = Without(otherPlayerEjected, Theirs)
                  ELSE /\ otherPlayerSplits' = Without(otherPlayerSplits, ItsSplit)
                       /\ UNCHANGED <<otherPlayers, otherPlayersMap,
                                      otherPlayerEjected>>
               /\ net' = Clear(net, key)
               /\ tx' = Clear(tx, key)
               /\ last' = SnapWith("player_consumed",
                      [req |-> r, newMass |-> newMass, stale |-> net[key].stale])
    /\ sent' = <<>>
    /\ UNCHANGED <<now, gameStarted, ws, lastUpdateTime, playerIdRef,
                   START_MASS, ejected, viruses, pellets, consumedEjectedIds,
                   server, link,
                   virusProjectiles, pelletsMap, virusesMap, virusProjectilesMap>>

(* onOtherEjectedConsumed, answering a consume_other_ejected intent *)
OtherEjectedConsumed ==
    /\ ws = "open"
    /\ playerIdRef # Null
    /\ \E key \in DOMAIN net, newMass \in NewMasses :
         /\ net[key].req.type = "consume_other_ejected"
         /\ LET r == net[key].req
                a == ApplyNewMass(player, splits, r.consumingEntityType,
                                  r.consumingEntityId, newMass)
                It(e) == ToString(e.id) = r.targetId
            IN /\ player' = a.player
               /\ splits' = a.splits
               /\ otherPlayerEjected' = Without(otherPlayerEjected, It)
               /\ consumedEjectedIds' = {i \in consumedEjectedIds : ToString(i) # r.targetId}
               /\ net' = Clear(net, key)
               /\ tx' = Clear(tx, key)
               /\ last' = SnapWith("ejected_consumed",
                      [req |-> r, newMass |-> newMass, stale |-> net[key].stale])
    /\ sent' = <<>>
    /\ UNCHANGED <<now, gameStarted, ws, lastUpdateTime, playerIdRef,
                   START_MASS, ejected, viruses, pellets, otherPlayers,
                   otherPlayerSplits, server, maps, link>>

(* what the snapshot and delta messages carry *)
PelletMsgs == {[id |-> i, x |-> 1, mass |-> Q(1)] : i \in {1, 2}}
VirusMsgs == {[id |-> 1, x |-> 1, mass |-> 113, feedCount |-> 1]}
FedMasses == {VIRUS_MASS, 113}
ProjectileMsgs == {[id |-> 7, x |-> 0]}
PlayerMsgs == {[id |-> Other, x |-> 0, mass |-> Q(20)],
               [id |-> "p3", x |-> 1, mass |-> Q(20)]}
UpdateMsgs ==
    {[type |-> "projectile_update", projectile |-> q] : q \in ProjectileMsgs}
        \cup {[type |-> "projectile_to_virus", projectileId |-> q.id, virus |-> v] :
                 q \in ProjectileMsgs, v \in VirusMsgs}
Ids(S) == {e.id : e \in S}
Batches(S) == UNION {[1..n -> S] : n \in 0..MaxSnapshot}

(* targets a player-consumed message can name: remote players, and the    *)
(* remote split of the worlds                                              *)
TargetIds == {Other, "p3", "7"}

(* what a snapshot or delta handler leaves alone besides the lists *)
local == <<now, gameStarted, ws, lastUpdateTime, playerIdRef, START_MASS,
           player, splits, ejected, consumedEjectedIds, server, net, tx,
           reconnectInterval, closing>>

(* a message arrives after 'init'; its handler transmits nothing *)
Delivered(op, arg) ==
    /\ ws = "open"
    /\ playerIdRef # Null
    /\ sent' = <<>>
    /\ last' = SnapWith(op, arg)

(* onPelletsReceived *)
PelletsReceived ==
    /\ \E ps \in Batches(PelletMsgs) :
         /\ Delivered("pellets", ps)
         /\ pelletsMap' = MapOf(ps)
         /\ pellets' = MapValues(pelletsMap')
    /\ UNCHANGED <<local, viruses, otherPlayers, otherPlayerSplits,
                   otherPlayerEjected, virusProjectiles, virusesMap,
                   virusProjectilesMap, otherPlayersMap>>

(* onVirusesReceived *)
VirusesReceived ==
    /\ \E vs \in Batches(VirusMsgs) :
         /\ Delivered("viruses", vs)
         /\ virusesMap' = MapOf(vs)
         /\ viruses' = MapValues(virusesMap')
    /\ UNCHANGED <<local, pellets, otherPlayers, otherPlayerSplits,
                   otherPlayerEjected, virusProjectiles, pelletsMap,
                   virusProjectilesMap, otherPlayersMap>>

(* onVirusProjectilesReceived *)
VirusProjectilesReceived ==
    /\ \E qs \in Batches(ProjectileMsgs) :
         /\ Delivered("projectiles", qs)
         /\ virusProjectilesMap' = MapOf(qs)
         /\ virusProjectiles' = MapValues(virusProjectilesMap')
    /\ UNCHANGED <<local, pellets, viruses, otherPlayers, otherPlayerSplits,
                   otherPlayerEjected, pelletsMap, virusesMap, otherPlayersMap>>

StaleList(list, m) == list

(* gameState.current.<list> = Array.from(<map>.current.values()) *)
Refreshed(list, m) == MapValues(m)

(* pelletsMap.delete(consumedId); pelletsMap.set(spawned.id, spawned) *)
Upserted(m, consumedId, spawned) == MapSet(MapDelete(m, consumedId), spawned.id, spawned)

(* onPelletUpdate *)
PelletUpdate ==
    /\ \E consumedId \in Ids(PelletMsgs), spawned \in PelletMsgs :
         /\ Delivered("pellet_update", [consumed |-> consumedId, spawned |-> spawned])
         /\ pelletsMap' = Upserted(pelletsMap, consumedId, spawned)
         /\ pellets' = Refreshed(pellets, pelletsMap')
    /\ UNCHANGED <<local, viruses, otherPlayers, otherPlayerSplits,
                   otherPlayerEjected, virusProjectiles, virusesMap,
                   virusProjectilesMap, otherPlayersMap>>

(* onVirusUpdate *)
VirusUpdate ==
    /\ \E consumedId \in Ids(VirusMsgs), spawned \in VirusMsgs :
         /\ Delivered("virus_update", [consumed |-> consumedId, spawned |-> spawned])
         /\ virusesMap' = Upserted(virusesMap, consumedId, spawned)
         /\ viruses' = Refreshed(viruses, virusesMap')
    /\ UNCHANGED <<local, pellets, otherPlayers, otherPlayerSplits,
                   otherPlayerEjected, virusProjectiles, pelletsMap,
                   virusProjectilesMap, otherPlayersMap>>

(* virus.mass = newMass; a virus back at VIRUS_MASS has split *)
Fed(virus, newMass) ==
    IF newMass = VIRUS_MASS
    THEN [virus EXCEPT !.mass = newMass, !.feedCount = 0]
    ELSE [virus EXCEPT !.mass = newMass]

(* the object the map holds under k is mutated in place: every list entry *)
(* that is this object shows the new fields                                *)
Mutated(list, m, k, v) ==
    [i \in 1..Len(list) |->
        IF MapHas(m, k) /\ list[i] = MapGet(m, k) THEN v ELSE list[i]]

(* onVirusFeed; projectileSpawned is <<>> when the message has none *)
VirusFeed ==
    /\ \E virusId \in Ids(VirusMsgs), newMass \in FedMasses,
          projectileSpawned \in Batches(ProjectileMsgs) :
         /\ Delivered("virus_feed", [virusId |-> virusId, newMass |-> newMass,
                                      projectileSpawned |-> projectileSpawned])
         /\ IF MapHas(virusesMap, virusId)
            THEN LET fed == Fed(MapGet(virusesMap, virusId), newMass)
                 IN /\ virusesMap' = MapSet(virusesMap, virusId, fed)
                    /\ viruses' = Mutated(viruses, virusesMap, virusId, fed)
            ELSE UNCHANGED <<virusesMap, viruses>>
         /\ Len(projectileSpawned) <= 1
         /\ IF projectileSpawned # <<>>
            THEN /\ virusProjectilesMap' =
                       MapSet(virusProjectilesMap, projectileSpawned[1].id,
                              projectileSpawned[1])
                 /\ virusProjectiles' = MapValues(virusProjectilesMap')
            ELSE UNCHANGED <<virusProjectilesMap, virusProjectiles>>
    /\ UNCHANGED <<local, pellets, otherPlayers, otherPlayerSplits,
                   otherPlayerEjected, pelletsMap, otherPlayersMap>>

(* updates.forEach(...) over the two maps *)
RECURSIVE ApplyUpdates(_, _)
ApplyUpdates(g, updates) ==
    IF updates = <<>> THEN g
    ELSE LET u == Head(updates)
         IN ApplyUpdates(
                IF u.type = "projectile_update"
                THEN [g EXCEPT !.projectiles = MapSet(@, u.projectile.id, u.projectile)]
                ELSE [projectiles |-> MapDelete(g.projectiles, u.projectileId),
                      viruses |-> MapSet(g.viruses, u.virus.id, u.virus)],
                Tail(updates))

(* onProjectileUpdates *)
ProjectileUpdates ==
    /\ \E updates \in Batches(UpdateMsgs) :
         LET g == ApplyUpdates([projectiles |-> virusProjectilesMap,
                                viruses |-> virusesMap], updates)
         IN /\ Delivered("projectile_updates", updates)
            /\ virusProjectilesMap' = g.projectiles
            /\ virusesMap' = g.viruses
            /\ virusProjectiles' = MapValues(virusProjectilesMap')
            /\ viruses' = MapValues(virusesMap')
    /\ UNCHANGED <<local, pellets, otherPlayers, otherPlayerSplits,
                   otherPlayerEjected, pelletsMap, otherPlayersMap>>

(* onOtherPlayersReceived *)
OtherPlayersReceived ==
    /\ \E ps \in Batches(PlayerMsgs) :
         /\ Delivered("other_players", ps)
         /\ otherPlayersMap' = MapOf(ps)
         /\ otherPlayers' = MapValues(otherPlayersMap')
    /\ UNCHANGED <<local, pellets, viruses, otherPlayerSplits,
                   otherPlayerEjected, virusProjectiles, pelletsMap, virusesMap,
                   virusProjectilesMap>>

(* onPlayerJoined *)
PlayerJoined ==
    /\ \E p \in PlayerMsgs :
         /\ Delivered("player_joined", p)
         /\ otherPlayersMap' = MapSet(otherPlayersMap, p.id, p)
         /\ otherPlayers' = MapValues(otherPlayersMap')
    /\ UNCHANGED <<local, pellets, viruses, otherPlayerSplits,
                   otherPlayerEjected, virusProjectiles, pelletsMap, virusesMap,
                   virusProjectilesMap>>

(* onPlayerLeft *)
PlayerLeft ==
    /\ \E playerId \in Ids(PlayerMsgs) :
         LET Theirs(e) == e.playerId = playerId
         IN /\ Delivered("player_left", playerId)
            /\ otherPlayersMap' = MapDelete(otherPlayersMap, playerId)
            /\ otherPlayers' = MapValues(otherPlayersMap')
            /\ otherPlayerSplits' = Without(otherPlayerSplits, Theirs)
            /\ otherPlayerEjected' = Without(otherPlayerEjected, Theirs)
    /\ UNCHANGED <<local, pellets, viruses, virusProjectiles, pelletsMap,
                   virusesMap, virusProjectilesMap>>

(* what a player_update message can carry as data.splits and data.ejected: *)
(* <<>> when the field is missing, <<list>> otherwise                       *)
SplitsMsgs == {<<>>, <<<<>>>>,
               <<<<[id |-> 7, playerId |-> Other, x |-> 0, mass |-> Q(10)]>>>>}
EjectedMsgs == {<<>>, <<<<>>>>, <<<<[id |-> 9, playerId |-> Other, x |-> 0]>>>>}

RemoteMasses == {20, 22}

(* handleMessage 'player_update': onPlayerUpdate writes the position and   *)
(* mass into the object the map holds, when it holds one; data.splits and   *)
(* data.ejected replace the remote lists                                    *)
OnPlayerUpdate ==
    /\ \E playerId \in Ids(PlayerMsgs), x \in Zones, mass \in RemoteMasses,
          ss \in SplitsMsgs, es \in EjectedMsgs :
         /\ Delivered("player_update", [playerId |-> playerId, x |-> x,
                                         mass |-> Q(mass)])
         /\ IF MapHas(otherPlayersMap, playerId)
            THEN LET moved == [MapGet(otherPlayersMap, playerId) EXCEPT
                                  !.x = x, !.mass = Q(mass)]
                 IN /\ otherPlayersMap' = MapSet(otherPlayersMap, playerId, moved)
                    /\ otherPlayers' =
                          Mutated(otherPlayers, otherPlayersMap, playerId, moved)
            ELSE UNCHANGED <<otherPlayersMap, otherPlayers>>
         /\ otherPlayerSplits' = IF ss = <<>> THEN otherPlayerSplits ELSE ss[1]
         /\ otherPlayerEjected' = IF es = <<>> THEN otherPlayerEjected ELSE es[1]
    /\ UNCHANGED <<local, pellets, viruses, virusProjectiles, pelletsMap,
                   virusesMap, virusProjectilesMap>>

(* onPlayerConsumed for a victim another client ate: consumerId is not    *)
(* the local id and targetId is not the local id                           *)
PlayerGone ==
    /\ \E targetType \in {"player", "split"}, targetId \in TargetIds :
         LET Theirs(e) == e.playerId = targetId
             ItsSplit(e) == ToString(e.id) = targetId
         IN /\ Delivered("player_gone",
                         [targetType |-> targetType, targetId |-> targetId])
            /\ IF targetType = "player"
               THEN /\ otherPlayersMap' = MapDelete(otherPlayersMap, targetId)
                    /\ otherPlayers' = MapValues(otherPlayersMap')
                    /\ otherPlayerSplits' = Without(otherPlayerSplits, Theirs)
                    /\ otherPlayerEjected' = Without(otherPlayerEjected, Theirs)
               ELSE /\ otherPlayerSplits' = Without(otherPlayerSplits, ItsSplit)
                    /\ UNCHANGED <<otherPlayers, otherPlayersMap,
                                   otherPlayerEjected>>
    /\ UNCHANGED <<local, pellets, viruses, virusProjectiles, pelletsMap,
                   virusesMap, virusProjectilesMap>>

(* parseInt(targetId): a number for a decimal string, NaN otherwise; NaN   *)
(* equals no id                                                            *)
ParsesTo(targetId, id) == targetId.k = "number" /\ targetId.i = id

(* onPlayerConsumed with targetType 'split' for a split of the local      *)
(* player that another client ate; the message names it by its id, or by   *)
(* its index when it has none                                              *)
OwnSplitConsumed ==
    /\ \E i \in 1..Len(splits) :
         \E targetId \in {splits[i].id, [k |-> "number", t |-> 0, i |-> i - 1]} :
            LET ItsSplit(e) == ParsesTo(targetId, e.id)
            IN /\ targetId # Undefined
               /\ Delivered("own_split_consumed",
                            [targetType |-> "split", targetId |-> targetId,
                             index |-> i])
               /\ otherPlayerSplits' = Without(otherPlayerSplits, ItsSplit)
    /\ UNCHANGED <<local, pellets, viruses, otherPlayers, otherPlayerEjected,
                   maps, link>>

OwnsAny(originalOwnerId) == TRUE

(* originalOwnerId === playerIdRef.current *)
Owns(originalOwnerId) == originalOwnerId = playerIdRef

(* onOtherEjectedConsumed for an ejected mass that another client ate:    *)
(* consumerId is not the local id                                         *)
EjectedGone ==
    /\ ws = "open"
    /\ playerIdRef # Null
    /\ \E ejectedId \in EjectedIds, originalOwnerId \in {Me, Other} :
         LET It(e) == e.id = ejectedId
             key == EjectedKey(ejectedId)
         IN /\ ejected' = IF Owns(originalOwnerId) THEN <<>> ELSE ejected
            /\ otherPlayerEjected' = Without(otherPlayerEjected, It)
            /\ consumedEjectedIds' = consumedEjectedIds \ {ejectedId}
            /\ net' = Clear(net, key)
            /\ tx' = Clear(tx, key)
            /\ last' = SnapWith("ejected_gone",
                   [ejectedId |-> ejectedId, originalOwnerId |-> originalOwnerId])
    /\ sent' = <<>>
    /\ UNCHANGED <<now, gameStarted, ws, lastUpdateTime, playerIdRef,
                   START_MASS, player, splits, viruses, pellets, otherPlayers,
                   otherPlayerSplits, server, maps, link>>

InitGame ==
    /\ server = Rivals
    /\ InitClient

InitHazards ==
    /\ server = Hazards
    /\ InitClient

(* a game in progress in world w: connected, configured, started, grown    *)
(* to player p and splits s, with the ejected masses e in flight           *)
InitFlying(w, p, s, e) ==
    /\ now = 0
    /\ gameStarted = TRUE
    /\ ws = "open"
    /\ lastUpdateTime = 0
    /\ playerIdRef = Me
    /\ START_MASS = w.startMass
    /\ player = p
    /\ splits = s
    /\ ejected = e
    /\ viruses = w.viruses
    /\ pellets = w.pellets
    /\ otherPlayers = w.players
    /\ virusProjectiles = <<>>
    /\ pelletsMap = MapOf(w.pellets)
    /\ virusesMap = MapOf(w.viruses)
    /\ virusProjectilesMap = <<>>
    /\ otherPlayersMap = MapOf(w.players)
    /\ otherPlayerSplits = w.playerSplits
    /\ otherPlayerEjected = w.playerEjected
    /\ consumedEjectedIds = {}
    /\ reconnectInterval = FALSE
    /\ closing = FALSE
    /\ server = w
    /\ net = Empty
    /\ sent = <<>>
    /\ tx = Empty
    /\ last = [op |-> "init", arg |-> NoArg]

InitPlaying(w, p, s) == InitFlying(w, p, s, <<>>)

Cell(m, x) == [id |-> Undefined, x |-> x, mass |-> Q(m), born |-> 0,
               mergeDelay |-> MergeDelayOf(Q(m))]

(* the inputs of handleSplit and handleEject *)
InitKeys ==
    \E m \in KeyMasses, n \in 0..MaxKeyCells :
        \E ms \in [1..n -> KeyMasses] :
            InitPlaying(Rivals, [x |-> 0, mass |-> Q(m)],
                        [i \in 1..n |-> Cell(ms[i], 1)])

(* the inputs of explodeOnVirus: a blob on a virus, with n small splits    *)
(* away from it                                                            *)
InitExplode ==
    \E m \in BlobMasses, n \in 0..MaxSplitCount :
        InitPlaying(Hazards, [x |-> 0, mass |-> Q(m)],
                    [i \in 1..n |-> Cell(MASS_FLOOR, 1)])

Fresh == last.op = "init"

Next ==
    \/ StartGame
    \/ WsOpen
    \/ ServerInit
    \/ KeySplit
    \/ KeyEject
    \/ Frame
    \/ PlayerConsumed
    \/ OtherEjectedConsumed

Spec == InitGame /\ [][Next]_vars

NextMerge ==
    \/ StartGame
    \/ WsOpen
    \/ ServerInit
    \/ KeySplit
    \/ FrameMerge

SpecMerge == InitGame /\ [][NextMerge]_vars

NextHazards ==
    \/ StartGame
    \/ WsOpen
    \/ ServerInit
    \/ KeySplit
    \/ FrameTick
    \/ Death
    \/ OtherEjectedConsumed

SpecHazards == InitHazards /\ [][NextHazards]_vars

NextReset ==
    \/ StartGame
    \/ WsOpen
    \/ ServerInit
    \/ KeySplit
    \/ KeyEject
    \/ FrameTick
    \/ Death

SpecReset == InitGame /\ [][NextReset]_vars

NextLate ==
    \/ StartGame
    \/ WsOpen
    \/ ServerInit
    \/ KeySplit
    \/ FrameTick
    \/ Death
    \/ PlayerConsumed
    \/ OtherEjectedConsumed

SpecLate == InitGame /\ [][NextLate]_vars

NextKeys ==
    \/ Fresh /\ KeySplit
    \/ Fresh /\ KeyEject

SpecKeys == InitKeys /\ [][NextKeys]_vars

NextExplode ==
    \/ Fresh /\ FrameTick

SpecExplode == InitExplode /\ [][NextExplode]_vars

(* the inputs of checkPelletCollisions: pellets and splits in either zone  *)
InitPellets ==
    \E n \in 0..MaxPellets, k \in 0..MaxKeyCells :
        \E px \in [1..n -> Zones], pm \in [1..n -> PelletMasses],
           sx \in [1..k -> Zones] :
            InitPlaying(Pasture([i \in 1..n |->
                                    [id |-> i, x |-> px[i], mass |-> Q(pm[i])]]),
                        [x |-> 0, mass |-> Q(25)],
                        [i \in 1..k |-> Cell(20, sx[i])])

(* cells of every mass in FloorMasses next to a virus *)
InitFloor ==
    \E m \in FloorMasses, k \in 0..1 :
        \E ms \in [1..k -> FloorMasses] :
            InitPlaying(Minefield, [x |-> 0, mass |-> m],
                        [i \in 1..k |->
                            [Cell(MASS_FLOOR, 0) EXCEPT
                                !.mass = ms[i], !.mergeDelay = MergeDelayOf(ms[i])]])

(* at most one key press, then frames 20 s apart until the horizon *)
NextFloor ==
    \/ Fresh /\ KeySplit
    \/ Fresh /\ KeyEject
    \/ FrameMerge /\ now' > now

SpecFloor == InitFloor /\ [][NextFloor]_vars

(* the inputs of the decay step: cells at the floor, just above it and     *)
(* well above it, in a world with nothing to eat                          *)
InitDecay ==
    \E m \in DecayMasses, k \in 0..MaxKeyCells :
        \E ms \in [1..k -> DecayMasses] :
            InitPlaying(Pasture(<<>>), [x |-> 0, mass |-> m],
                        [i \in 1..k |->
                            [Cell(MASS_FLOOR, 1) EXCEPT
                                !.mass = ms[i], !.mergeDelay = MergeDelayOf(ms[i])]])

NextDecay ==
    \/ Frame

SpecDecay == InitDecay /\ [][NextDecay]_vars

(* the inputs of the smoothing block: cells whose visual mass lags or     *)
(* leads their actual mass                                                *)
InitSmooth ==
    \E g \in VisualGaps, k \in 0..MaxSmoothCells :
        \E gs \in [1..k -> VisualGaps] :
            InitPlaying(Pasture(<<>>),
                        [x |-> 0, mass |-> Q(25), visualMass |-> QSub(Q(25), g)],
                        [i \in 1..k |->
                            [id |-> Undefined, x |-> 1, mass |-> Q(20),
                             visualMass |-> QSub(Q(20), gs[i]), born |-> 0,
                             mergeDelay |-> MergeDelayOf(Q(20))]])

NextSmooth ==
    \/ FrameTick

SpecSmooth == InitSmooth /\ [][NextSmooth]_vars

(* the smoothing blocks of one frame on their own: that of                *)
(* PlayerManager.update on the player and that of SplitBlobManager.update *)
(* on every split                                                         *)
SmoothCells ==
    /\ gameStarted
    /\ player' = Smoothed(player)
    /\ splits' = [i \in 1..Len(splits) |-> Smoothed(splits[i])]
    /\ sent' = <<>>
    /\ last' = Snap("smooth")
    /\ UNCHANGED <<now, gameStarted, ws, lastUpdateTime, playerIdRef,
                   START_MASS, ejected, remote, consumedEjectedIds, net, tx, maps, link>>

NextSteps ==
    \/ SmoothCells

(* requestAnimationFrame keeps calling gameLoop, which runs the smoothing *)
(* blocks once a frame                                                    *)
SpecSteps == InitSmooth /\ [][NextSteps]_vars /\ WF_vars(SmoothCells)

(* the inputs of the pair loop of handleSplitBlobCollisions: two splits   *)
(* on a line, far from the player                                         *)
InitRelax ==
    \E off \in PairOffsets, r1, r2 \in PairRadii, b1, b2 \in PairBirths :
        InitPlaying(Pasture(<<>>), [x |-> Q(1000), mass |-> Q(25)],
                    <<[id |-> Undefined, x |-> Q(0), radius |-> Q(r1),
                       mass |-> Q(20), born |-> b1, mergeDelay |-> MergeDelayOf(Q(20))],
                      [id |-> Undefined, x |-> off, radius |-> Q(r2),
                       mass |-> Q(20), born |-> b2, mergeDelay |-> MergeDelayOf(Q(20))]>>)

(* one relaxation pass over the pair of splits *)
RelaxPair ==
    /\ gameStarted
    /\ Len(splits) = 2
    /\ \E a \in {-1, 1} : splits' = SeparatePair(splits[1], splits[2], now, a)
    /\ sent' = <<>>
    /\ last' = Snap("relax")
    /\ UNCHANGED <<now, gameStarted, ws, lastUpdateTime, playerIdRef, START_MASS,
                   player, ejected, remote, consumedEjectedIds, net, tx, maps, link>>

NextRelax ==
    \/ Fresh /\ RelaxPair

SpecRelax == InitRelax /\ [][NextRelax]_vars

(* the inputs of the consumption checks: cells of every weight in either *)
(* zone                                                                   *)
InitEat ==
    \E m \in EaterMasses, z \in Zones, k \in 0..MaxKeyCells :
        \E ms \in [1..k -> EaterMasses], sx \in [1..k -> Zones] :
            InitPlaying(Banquet, [x |-> z, mass |-> Q(m)],
                        [i \in 1..k |-> Cell(ms[i], sx[i])])

NextEat ==
    \/ Fresh /\ FrameTick

SpecEat == InitEat /\ [][NextEat]_vars

NextOwner ==
    \/ StartGame
    \/ WsOpen
    \/ ServerInit
    \/ KeyEject
    \/ FrameTick
    \/ EjectedGone

SpecOwner == InitGame /\ [][NextOwner]_vars

OfflineMasses == {22, 36, 150, 300}

InitOffline ==
    \E m \in OfflineMasses, z \in Zones :
        InitPlaying(Buffet, [x |-> z, mass |-> Q(m)], <<>>)

(* the socket closes at any time; every frame advances the clock *)
NextOffline ==
    \/ WsClose
    \/ Len(ejected) < MaxOfflineEjected /\ KeyEject
    \/ Frame /\ now' > now

SpecOffline == InitOffline /\ [][NextOffline]_vars

(* frames 20, 30 or 50 ms apart *)
RateSteps == {20, 30, 50}

FrameRate == FrameBy(RateSteps, RateHorizon)

InitRate == InitPlaying(Pasture(<<>>), [x |-> 0, mass |-> Q(MASS_FLOOR)], <<>>)

NextRate ==
    \/ FrameRate
    \/ Reconnect
    \/ WsOpen

SpecRate == InitRate /\ [][NextRate]_vars

NextVictim ==
    \/ Fresh /\ FrameTick
    \/ OwnSplitConsumed

SpecVictim == InitExplode /\ [][NextVictim]_vars

NextMaps ==
    \/ PelletsReceived
    \/ VirusesReceived
    \/ VirusProjectilesReceived
    \/ PelletUpdate
    \/ VirusUpdate
    \/ VirusFeed
    \/ ProjectileUpdates
    \/ OtherPlayersReceived
    \/ PlayerJoined
    \/ PlayerLeft
    \/ PlayerGone
    \/ EjectedGone

InitMaps == InitPlaying(Rivals, [x |-> 0, mass |-> Q(40)], <<>>)

SpecMaps == InitMaps /\ [][NextMaps]_vars

NextRemote ==
    \/ OtherPlayersReceived
    \/ PlayerJoined
    \/ PlayerLeft
    \/ OnPlayerUpdate

SpecRemote == InitMaps /\ [][NextRemote]_vars

(* the inputs of SplitBlobManager.update: splits of different masses, born *)
(* now or 40 s ago and past their merge delay, in either zone              *)
InitMergers ==
    \E z \in Zones, k \in 0..MaxMergers :
        \E sx \in [1..k -> Zones], sb \in [1..k -> PairBirths] :
            InitPlaying(Pasture(<<>>), [x |-> z, mass |-> Q(25)],
                        [i \in 1..k |-> [Cell(20 + i, sx[i]) EXCEPT !.born = sb[i]]])

NextMergers ==
    \/ Fresh /\ FrameTick

SpecMergers == InitMergers /\ [][NextMergers]_vars

(* positions a cell can be moved to in a frame: beyond either wall, at a   *)
(* wall, near it and in the middle of the world                           *)
WallXs == {-10, 0, 30, 5500, 10990, 11000}

(* a player of mass 25 and splits of mass 16 with their radii 5 * sqrt(m), *)
(* in the middle of the world                                             *)
InitWall ==
    \E k \in 0..MaxWallSplits :
        \E sb \in [1..k -> PairBirths] :
            InitPlaying(Pasture(<<>>),
                        [x |-> Q(5500), mass |-> Q(25), radius |-> Q(25)],
                        [i \in 1..k |->
                            [id |-> Undefined, x |-> Q(5500), radius |-> Q(20),
                             mass |-> Q(16), born |-> sb[i],
                             mergeDelay |-> MergeDelayOf(Q(16))]])

(* the positions of one frame on a line: PlayerManager.update and         *)
(* SplitBlobManager.update move and clamp the cells, then                 *)
(* handleSplitBlobCollisions separates them in three iterations           *)
WallFrame ==
    /\ gameStarted
    /\ \E px \in WallXs, sx \in [1..Len(splits) -> WallXs], a \in {-1, 1} :
         LET p == [player EXCEPT !.x = clampToWorld(Q(px), player.radius)]
             ss == [i \in 1..Len(splits) |->
                       [splits[i] EXCEPT
                           !.x = clampToWorld(Q(sx[i]), splits[i].radius)]]
         IN /\ player' = p
            /\ splits' = Separated(p, ss, now, a, 3)
    /\ sent' = <<>>
    /\ last' = Snap("wall")
    /\ UNCHANGED <<now, gameStarted, ws, lastUpdateTime, playerIdRef, START_MASS,
                   ejected, remote, consumedEjectedIds, net, tx, maps, link>>

NextWall ==
    \/ WallFrame

SpecWall == InitWall /\ [][NextWall]_vars

(* frames 20 s apart over the pellets of InitPellets, which stay in the   *)
(* local list: no pellet_update arrives                                   *)
NextGraze ==
    \/ FrameMerge /\ now' > now

SpecGraze == InitPellets /\ [][NextGraze]_vars

(* the life of the connection while frames go on: the socket opens and   *)
(* closes, disconnect() drops it, its close event and the reconnect timer *)
(* fire                                                                    *)
NextLink ==
    \/ FrameRate
    \/ WsOpen
    \/ WsClose
    \/ Disconnect
    \/ DroppedSocketClosed
    \/ ReconnectTick

SpecLink == InitRate /\ [][NextLink]_vars

(* the inputs of the consumption checks when the remote lists hold the    *)
(* local player's own entities                                            *)
InitEcho ==
    \E m \in EaterMasses, z \in Zones, k \in 0..MaxKeyCells :
        \E ms \in [1..k -> EaterMasses], sx \in [1..k -> Zones] :
            InitPlaying(Mirror, [x |-> z, mass |-> Q(m)],
                        [i \in 1..k |-> Cell(ms[i], sx[i])])

NextEcho ==
    \/ Fresh /\ FrameTick

SpecEcho == InitEcho /\ [][NextEcho]_vars

(* a world that holds the viruses vs and nothing else *)
Lab(vs) ==
    [startMass |-> 25, pellets |-> <<>>, viruses |-> vs, players |-> <<>>,
     playerSplits |-> <<>>, playerEjected |-> <<>>]

(* the inputs of checkEjectedCollisions: ejected masses, splits and at most *)
(* one virus in either zone                                                *)
InitEjected ==
    \E z \in Zones, k \in 0..MaxKeyCells, n \in 0..MaxEjected, nv \in 0..1 :
        \E sx \in [1..k -> Zones], ex \in [1..n -> Zones], vx \in [1..nv -> Zones] :
            InitFlying(Lab([i \in 1..nv |-> [id |-> i, x |-> vx[i]]]),
                       [x |-> z, mass |-> Q(25)],
                       [i \in 1..k |-> Cell(20, sx[i])],
                       [i \in 1..n |-> [x |-> ex[i], travelled |-> EJECT_RANGE,
                                        mass |-> Q(EJECT_MASS_GAIN)]])

Unplayed == last.op \in {"init", "close"}

NextEjected ==
    \/ Fresh /\ WsClose
    \/ Unplayed /\ FrameTick

SpecEjected == InitEjected /\ [][NextEjected]_vars

NextPellets ==
    \/ Fresh /\ FrameTick

SpecPellets == InitPellets /\ [][NextPellets]_vars
(* ------------------------------------------------------------ properties *)
Young(s, t) == SelectSeq(s, LAMBDA c : t - c.born < c.mergeDelay)

Tags(s) == [i \in 1..Len(s) |-> <<s[i].born, s[i].mergeDelay>>]

Cells(p, s) == <<[x |-> p.x, mass |-> p.mass]>>
               \o [i \in 1..Len(s) |-> [x |-> s[i].x, mass |-> s[i].mass]]

Added(before, after) == SubSeq(after, Len(before) + 1, Len(after))

(* C1: a frame removes no split whose age is below its mergeDelay: the     *)
(* splits younger than their merge delay are the same before and after     *)
(* every frame, wherever they and the player are.  Masses are exact        *)
(* rationals here; the given merge delay 30000 + 23.33 * mass is compared   *)
(* with whole milliseconds, hence its ceiling.                             *)
C1_MergeOnlyWhenMature ==
    [][last'.op = "frame" =>
          Tags(Young(splits, now')) = Tags(Young(splits', now'))]_vars

C1_YoungSplitSurvives ==
    /\ last.op = "frame"
    /\ \E i \in 1..Len(splits) :
          /\ now - splits[i].born >= SPLIT_FLIGHT_DURATION
          /\ now - splits[i].born < splits[i].mergeDelay

(* C2: after a frame in which a virus exploded a cell, the player has at   *)
(* most 16 cells.                                                          *)
Exploded ==
    /\ last.op = "frame"
    /\ \E i \in 1..Len(sent) : sent[i].type = "consume_virus"

C3_ExplosionConservesMass ==
    [][(last'.op = "frame" /\ CanExplode(player, viruses[1])) =>
          LET pieces == Added(splits, splits')
              total == QAdd(player.mass, Q(VIRUS_MASS))
          IN /\ QAdd(player'.mass, QSum(Masses(pieces))) = total
             /\ \A i \in 1..Len(pieces) : pieces[i].mass = player'.mass
             /\ (1 + Len(splits) >= MAX_CELLS =>
                    pieces = <<>> /\ player'.mass = total)]_vars

C3_PiecesShareWithBlob ==
    /\ last.op = "frame"
    /\ \E i \in 1..Len(splits) :
          splits[i].id.k = "virus-split" /\ splits[i].mass = player.mass

(* C4: a split key press halves every cell of mass >= splitThreshold and   *)
(* adds for it one new split of the same half at the same position, in     *)
(* cell order; smaller cells are unchanged and add none; the total mass    *)
(* is unchanged.                                                           *)
C4_SplitHalvesEligibleCells ==
    [][last'.op = "split" =>
          LET old == Cells(player, splits)
              kept == Cells(player', SubSeq(splits', 1, Len(splits)))
              new == Added(splits, splits')
              big == {k \in 1..Len(old) : QGe(old[k].mass, Q(SPLIT_THRESHOLD))}
              Rank(k) == Cardinality({j \in big : j <= k})
          IN /\ \A k \in 1..Len(old) :
                  /\ kept[k].x = old[k].x
                  /\ IF k \in big
                     THEN /\ QAdd(kept[k].mass, kept[k].mass) = old[k].mass
                          /\ new[Rank(k)].mass = kept[k].mass
                          /\ new[Rank(k)].x = old[k].x
                     ELSE kept[k].mass = old[k].mass
             /\ Len(new) = Cardinality(big)
             /\ QSum(Masses(Cells(player', splits'))) = QSum(Masses(old))]_vars

C4_HalvedAndUntouched ==
    /\ last.op = "split"
    /\ \E i, j \in 1..Len(splits) :
          splits[i].mass = Q(100) /\ splits[j].mass = Q(31)

(* C5: an eject key press takes ejectLoss from every cell of mass >=       *)
(* ejectThreshold and appends for it one Ejected of mass ejectMassGain     *)
(* that has travelled 0; smaller cells are unchanged and append none (so   *)
(* a lone player of mass 200 ends at 200 - 18 = 182 with one new Ejected). *)
C5_EjectShrinksEligibleCells ==
    [][last'.op = "eject" =>
          LET old == Cells(player, splits)
              kept == Cells(player', splits')
              new == Added(ejected, ejected')
              big == {k \in 1..Len(old) : QGe(old[k].mass, Q(EJECT_THRESHOLD))}
          IN /\ Len(splits') = Len(splits)
             /\ \A k \in 1..Len(old) :
                  kept[k].mass = IF k \in big
                                 THEN QSub(old[k].mass, Q(EJECT_LOSS))
                                 ELSE old[k].mass
             /\ SubSeq(ejected', 1, Len(ejected)) = ejected
             /\ Len(new) = Cardinality(big)
             /\ \A i \in 1..Len(new) :
                  new[i].mass = Q(EJECT_MASS_GAIN) /\ new[i].travelled = 0]_vars

C5_LonePlayerOf200 ==
    /\ last.op = "eject"
    /\ splits = <<>>
    /\ player.mass = Q(182)
    /\ Len(ejected) = 1

(* C5 as stated: a lone player of mass 200 ends at exactly 178 *)
C5_LonePlayerEndsAt178 ==
    [][(last'.op = "eject" /\ splits = <<>> /\ player.mass = Q(200)) =>
          player'.mass = Q(178)]_vars

IsIntent(m) == m.type \in {"consume_player", "consume_other_ejected"}

C7_OneEjectedIntentUntilOutcome ==
    /\ \A k \in DOMAIN tx : k[1] = "ejected" => tx[k] <= 1
    /\ last.op = "ejected_consumed" =>
          \A i \in consumedEjectedIds : ToString(i) # last.arg.req.targetId

C7_OverlapSuppressed ==
    /\ last.op = "frame"
    /\ \A i \in 1..Len(sent) : sent[i].type # "consume_other_ejected"
    /\ \E e \in 1..Len(otherPlayerEjected) :
          LET id == otherPlayerEjected[e].id
              x == otherPlayerEjected[e].x
          IN /\ id \in consumedEjectedIds
             /\ Count(tx, EjectedKey(id)) = 1
             /\ player.x = x \/ \E i \in 1..Len(splits) : splits[i].x = x

EaterAt(x, p, s) ==
    IF p.x = x THEN 0
    ELSE LET S == {i \in 1..Len(s) : s[i].x = x}
         IN IF S = {} THEN -1 ELSE CHOOSE i \in S : \A j \in S : i <= j

RECURSIVE GainOf(_, _, _, _)
GainOf(c, ps, p, s) ==
    IF ps = <<>> THEN Q(0)
    ELSE QAdd(IF EaterAt(Head(ps).x, p, s) = c THEN Head(ps).mass ELSE Q(0),
              GainOf(c, Tail(ps), p, s))

IntentsFor(type, id, msgs) ==
    Cardinality({j \in 1..Len(msgs) : msgs[j].type = type /\ msgs[j].id = id})

(* C12: in a frame where nothing else feeds or drains a cell, every pellet *)
(* lying on a cell adds its mass to exactly one cell, the player if the    *)
(* player is there and else the first split there, and one consume_pellet  *)
(* intent with its id is transmitted; a pellet on no cell adds nothing and *)
(* transmits nothing.  Positions are those the collision pass sees.        *)
C12_PelletFeedsOneCell ==
    [][last'.op = "frame" =>
          /\ player'.mass = QAdd(player.mass, GainOf(0, pellets, player', splits'))
          /\ Len(splits') = Len(splits)
          /\ \A i \in 1..Len(splits) :
                splits'[i].mass =
                    QAdd(splits[i].mass, GainOf(i, pellets, player', splits'))
          /\ \A k \in 1..Len(pellets) :
                IntentsFor("consume_pellet", pellets[k].id, sent') =
                    IF EaterAt(pellets[k].x, player', splits') = -1 THEN 0 ELSE 1]_vars

C12_PlayerAtePelletOf5 ==
    /\ last.op = "frame"
    /\ player.mass = Q(30)
    /\ Len(sent) = 1
    /\ sent[1].type = "consume_pellet"

(* C13: the player and every local split keep a mass of at least 10 across *)
(* frames (decay, merge, virus explosion) and split and eject key presses. *)
C13_MassNeverBelowFloor ==
    /\ QGe(player.mass, Q(MASS_FLOOR))
    /\ \A i \in 1..Len(splits) : QGe(splits[i].mass, Q(MASS_FLOOR))

C13_DecayedToFloor ==
    /\ last.op = "frame"
    /\ now > 0
    /\ player.mass = Q(MASS_FLOOR)
    /\ \E i \in 1..Len(splits) : splits[i].mass = Q(MASS_FLOOR)

(* max(10, m - m * r * dt), dt in ms *)
DecayedMass(m, dtMs) ==
    QMax(Q(10), QSub(m, QMul(QMul(m, DECAY_RATE), Norm(dtMs, 1000))))

(* C14: a frame of dt seconds with nothing to eat and nothing to merge     *)
(* leaves the player and every split of mass m >= 10 with mass             *)
(* max(10, m - m * r * dt); a mass of 10 stays 10.                         *)
C14_DecayStep ==
    [][last'.op = "frame" =>
          /\ player'.mass = DecayedMass(player.mass, now' - now)
          /\ Len(splits') = Len(splits)
          /\ \A i \in 1..Len(splits) :
                /\ splits'[i].mass = DecayedMass(splits[i].mass, now' - now)
                /\ splits[i].mass = Q(10) => splits'[i].mass = Q(10)
          /\ player.mass = Q(10) => player'.mass = Q(10)]_vars

C14_DecayedAndClamped ==
    /\ last.op = "frame"
    /\ now = 20000
    /\ player.mass = [n |-> 168, d |-> 5]
    /\ Len(splits) = 2
    /\ splits[1].mass = Q(10)
    /\ splits[1].mergeDelay = MergeDelayOf([n |-> 52, d |-> 5])
    /\ splits[2].mergeDelay = MergeDelayOf(Q(10))

(* visual + (actual - visual) * 0.08, or actual when the gap is below 0.1 *)
StepOf(visual, actual) ==
    LET gap == QSub(actual, visual)
    IN IF QGt(Norm(1, 10), QAbs(gap)) THEN actual
       ELSE QAdd(visual, QMul(gap, Norm(8, 100)))

(* C15: one frame leaves the visual mass v of the player and of every      *)
(* split at v + (actual - v) * 0.08, or at actual when |actual - v| < 0.1  *)
(* before the frame; a visual mass equal to the actual mass stays.         *)
C15_SmoothingStep ==
    [][last'.op = "frame" =>
          /\ player'.visualMass = StepOf(player.visualMass, player.mass)
          /\ player.visualMass = player.mass => player'.visualMass = player.visualMass
          /\ Len(splits') = Len(splits)
          /\ \A i \in 1..Len(splits) :
                /\ splits'[i].visualMass = StepOf(splits[i].visualMass, splits[i].mass)
                /\ splits[i].visualMass = splits[i].mass =>
                      splits'[i].visualMass = splits[i].visualMass]_vars

C15_SteppedAndSnapped ==
    /\ last.op = "frame"
    /\ QSub(player.mass, player.visualMass) = [n |-> 69, d |-> 625]
    /\ Len(splits) = 1
    /\ splits[1].visualMass = splits[1].mass

Gap(c) == QSub(c.mass, c.visualMass)

(* the gap of c2 is no wider than that of c1 and not on the other side *)
Closer(c1, c2) ==
    /\ QGe(QAbs(Gap(c1)), QAbs(Gap(c2)))
    /\ Gap(c1).n * Gap(c2).n >= 0

Settled ==
    /\ Gap(player).n = 0
    /\ \A i \in 1..Len(splits) : Gap(splits[i]).n = 0

NeverWider ==
    last'.op = "smooth" =>
        /\ player'.mass = player.mass
        /\ Closer(player, player')
        /\ \A i \in 1..Len(splits) :
              splits'[i].mass = splits[i].mass /\ Closer(splits[i], splits'[i])

(* C16: while the actual masses stay as they are, a step never widens the  *)
(* gap between a cell's visual and actual mass nor carries the visual mass *)
(* past the actual mass, and eventually every visual mass equals its       *)
(* actual mass for good.                                                   *)
C16_SmoothingConverges == [][NeverWider]_vars /\ <>[]Settled

Apart(s) == QAbs(QSub(s[2].x, s[1].x))

Reach(s) == QAdd(s[1].radius, s[2].radius)

BothYoung(s, t) == \A i \in 1..2 : t - s[i].born < s[i].mergeDelay

Eaters(ctype) ==
    IF ctype = "player" THEN {[x |-> player.x, mass |-> player.mass]}
    ELSE {[x |-> splits[i].x, mass |-> splits[i].mass] : i \in 1..Len(splits)}

(* the remote player or remote split an intent names *)
Targets(m) ==
    IF m.targetType = "player"
    THEN {[x |-> otherPlayers[i].x, mass |-> otherPlayers[i].mass] :
             i \in {j \in 1..Len(otherPlayers) : otherPlayers[j].id = m.targetId}}
    ELSE {[x |-> otherPlayerSplits[i].x, mass |-> otherPlayerSplits[i].mass] :
             i \in {j \in 1..Len(otherPlayerSplits) :
                       ToString(otherPlayerSplits[j].id) = m.targetId}}

Occupied(x) == player.x = x \/ \E i \in 1..Len(splits) : splits[i].x = x

(* C18: a frame transmits a consume_player intent only for a target that   *)
(* lies on a local cell of the consuming kind whose mass is at least 1.1   *)
(* times the target's; every pellet on a local cell and a remote ejected   *)
(* mass on a local cell are asked for whatever the cell weighs.            *)
C18_EatingRules ==
    last.op = "frame" =>
        /\ \A i \in 1..Len(sent) :
              sent[i].type = "consume_player" =>
                  \E c \in Eaters(sent[i].consumingEntityType), o \in Targets(sent[i]) :
                      /\ c.x = o.x
                      /\ 10 * c.mass.n * o.mass.d >= 11 * o.mass.n * c.mass.d
        /\ \A k \in 1..Len(pellets) :
              Occupied(pellets[k].x) =>
                  \E i \in 1..Len(sent) :
                      sent[i].type = "consume_pellet" /\ sent[i].id = pellets[k].id
        /\ (\E k \in 1..Len(otherPlayerEjected) : Occupied(otherPlayerEjected[k].x)) =>
              \E i \in 1..Len(sent) : sent[i].type = "consume_other_ejected"

C18_TooLightForThePlayer ==
    /\ last.op = "frame"
    /\ player.x = 0
    /\ player.mass = Q(21)
    /\ \E i \in 1..Len(sent) : sent[i].type = "consume_other_ejected"
    /\ \E i \in 1..Len(sent) : sent[i].type = "consume_pellet"
    /\ \A i \in 1..Len(sent) :
          sent[i].type = "consume_player" =>
              sent[i].consumingEntityType = "split" /\ sent[i].targetType = "split"
    /\ \E i \in 1..Len(sent) : sent[i].type = "consume_player"

Asks(msgs) == \E i \in 1..Len(msgs) : IsIntent(msgs[i])

(* C19: a frame that transmits a consume_player or consume_other_ejected   *)
(* intent changes no local cell's mass and no entry of the remote players, *)
(* remote splits and remote ejected; entries leave these lists only when   *)
(* a message of the server is handled.                                     *)
C19_IntentsLeaveStateAlone ==
    [][/\ (last'.op = "frame" /\ Asks(sent')) =>
             /\ player'.mass = player.mass
             /\ Masses(splits') = Masses(splits)
             /\ otherPlayers' = otherPlayers
             /\ otherPlayerSplits' = otherPlayerSplits
             /\ otherPlayerEjected' = otherPlayerEjected
       /\ (\/ otherPlayers' # otherPlayers
           \/ otherPlayerSplits' # otherPlayerSplits
           \/ otherPlayerEjected' # otherPlayerEjected) =>
             last'.op \in {"config", "player_consumed", "ejected_consumed"}]_vars

C19_AskedAndStillThere ==
    /\ last.op = "frame"
    /\ \E i \in 1..Len(sent) : sent[i].type = "consume_player"
    /\ \E i \in 1..Len(sent) : sent[i].type = "consume_other_ejected"
    /\ player.mass = Q(20)
    /\ Len(otherPlayers) = 1
    /\ Len(otherPlayerSplits) = 1
    /\ Len(otherPlayerEjected) = 1

C21_OwnerClearsEjected ==
    [][last'.op = "ejected_gone" =>
          /\ otherPlayerEjected' =
                 SelectSeq(otherPlayerEjected, LAMBDA e : e.id # last'.arg.ejectedId)
          /\ last'.arg.originalOwnerId = playerIdRef => ejected' = <<>>
          /\ last'.arg.originalOwnerId # playerIdRef => ejected' = ejected]_vars

C21_OwnOutcomeEmptiesEjected ==
    /\ last.op = "ejected_gone"
    /\ last.arg.originalOwnerId = Me
    /\ playerIdRef = Me
    /\ player.mass = Q(22)
    /\ ejected = <<>>

NoTwice(list) ==
    \A i, j \in 1..Len(list) : list[i].id = list[j].id => i = j

Keyed(m) == \A i \in 1..Len(m) : m[i][1] = m[i][2].id

(* C22: after any sequence of snapshot and delta messages each canonical   *)
(* list holds exactly the values of its id-keyed map, in the map's order,  *)
(* and no id twice.                                                        *)
C22_ListsAreTheMaps ==
    /\ pellets = MapValues(pelletsMap) /\ NoTwice(pellets) /\ Keyed(pelletsMap)
    /\ viruses = MapValues(virusesMap) /\ NoTwice(viruses) /\ Keyed(virusesMap)
    /\ virusProjectiles = MapValues(virusProjectilesMap)
    /\ NoTwice(virusProjectiles) /\ Keyed(virusProjectilesMap)
    /\ otherPlayers = MapValues(otherPlayersMap)
    /\ NoTwice(otherPlayers) /\ Keyed(otherPlayersMap)

C22_DeletedIdIsGone ==
    /\ last.op = "pellet_update"
    /\ last.arg.consumed = 1
    /\ last.arg.spawned.id = 2
    /\ Len(pellets) = 1
    /\ pellets[1].id = 2
    /\ Len(viruses) = 1
    /\ viruses[1].mass = VIRUS_MASS
    /\ viruses[1].feedCount = 0
    /\ Len(virusProjectiles) = 1
    /\ Len(otherPlayers) = 2

Repeatable == {"pellets", "pellet_update", "virus_update", "player_joined",
               "player_left", "ejected_gone", "player_gone"}

canonical == <<pellets, viruses, virusProjectiles, otherPlayers,
               otherPlayerSplits, otherPlayerEjected, pelletsMap, virusesMap,
               virusProjectilesMap, otherPlayersMap, player, splits, ejected,
               consumedEjectedIds>>

(* C23: a pellet snapshot, pellet update, virus update, player-joined,     *)
(* player-left, other-ejected-consumed or player-consumed message naming   *)
(* a remote victim that is handled a second time right after the first     *)
(* leaves every list and map as the first handling left it.                *)
C23_SecondDeliveryChangesNothing ==
    [][(/\ last'.op \in Repeatable
        /\ last'.op = last.op
        /\ last'.arg = last.arg) => UNCHANGED canonical]_vars

C23_UpdateDeliveredAgain ==
    /\ last.op = "pellet_update"
    /\ last.arg.consumed = 1
    /\ last.arg.spawned.id = 1
    /\ Len(pellets) = 2
    /\ pelletsMap = Upserted(pelletsMap, last.arg.consumed, last.arg.spawned)
    /\ pellets = Refreshed(pellets, pelletsMap)

Spawns(u, X) == u.spawned.id = X /\ u.consumed # X

Consumes(u, X) == u.consumed = X /\ u.spawned.id # X

(* C24: when the pellet update that spawns X and the pellet update that    *)
(* reports X consumed are handled one right after the other, in either     *)
(* order, the pellet list does not hold X afterwards.                      *)
C24_RacedPelletIsGone ==
    [][(last.op = "pellet_update" /\ last'.op = "pellet_update") =>
          \A X \in Ids(PelletMsgs) :
              (\/ Spawns(last.arg, X) /\ Consumes(last'.arg, X)
               \/ Consumes(last.arg, X) /\ Spawns(last'.arg, X))
                  => \A i \in 1..Len(pellets') : pellets'[i].id # X]_vars

(* C25: a frame that runs while the socket is not OPEN transmits nothing,  *)
(* neither an intent nor a player_update, and leaves the send clock alone; *)
(* the frame still runs: time advances, and a player with no split and no   *)
(* ejected mass that does not explode decays and gains the pellets it lies  *)
(* on.                                                                      *)
C25_ClosedSocketSendsNothing ==
    [][(ws # "open" /\ last'.op = "frame") =>
          /\ sent' = <<>>
          /\ net' = net
          /\ tx' = tx
          /\ lastUpdateTime' = lastUpdateTime
          /\ now' - now \in ClockSteps
          /\ (splits = <<>> /\ ejected = <<>> /\ splits' = <<>>) =>
                player'.mass = QAdd(DecayedMass(player.mass, now' - now),
                                    GainOf(0, pellets, player', splits'))]_vars

C25_PredictedWhileClosed ==
    /\ ws = "closed"
    /\ last.op = "frame"
    /\ now = 20000
    /\ player.x = 0
    /\ player.mass = DecayedMass(Q(22), 20000)
    /\ 9 \in consumedEjectedIds
    /\ sent = <<>>
    /\ net = Empty

Updates(msgs) == {i \in 1..Len(msgs) : msgs[i].type = "player_update"}

(* C26: a frame transmits a player_update exactly when the socket is OPEN  *)
(* and at least 50 ms have passed since the reference time, which then      *)
(* becomes the time of this frame; a frame that comes earlier transmits     *)
(* none and leaves the reference time alone.  The reference time is the     *)
(* time of the last player_update transmitted on this connection.           *)
C26_UpdatesFiftyApart ==
    [][last'.op = "frame" =>
          /\ Cardinality(Updates(sent')) =
                IF ws = "open" /\ now' - lastUpdateTime >= 50 THEN 1 ELSE 0
          /\ Updates(sent') # {} => lastUpdateTime' = now'
          /\ Updates(sent') = {} => lastUpdateTime' = lastUpdateTime]_vars

C26_EarlyFrameSentNothing ==
    /\ ws = "open"
    /\ last.op = "frame"
    /\ lastUpdateTime = 50
    /\ now = 90
    /\ sent = <<>>

(* C27: a player-consumed outcome of target type 'split' that names a      *)
(* split of the local player takes that split out of the local splits.     *)
C27_OwnSplitRemoved ==
    [][last'.op = "own_split_consumed" =>
          splits' = RemoveAt(splits, last'.arg.index)]_vars

(* C28: every local split carries an id, and no two local splits carry    *)
(* the same id.                                                            *)
C28_SplitIdsUnique ==
    /\ \A i \in 1..Len(splits) : splits[i].id # Undefined
    /\ \A i, j \in 1..Len(splits) : splits[i].id = splits[j].id => i = j

(* C29: a position update for a remote player the client already holds    *)
(* leaves the player's current position as it was in that step.            *)
C29_LaterUpdateKeepsPosition ==
    [][last'.op = "player_update" =>
          \A i \in 1..Len(otherPlayers) :
              otherPlayers'[i].x = otherPlayers[i].x]_vars

InOrder(msgs, types) ==
    \A i, j \in 1..Len(msgs) :
        i < j => \E a, b \in 1..Len(types) :
                    a <= b /\ types[a] = msgs[i].type /\ types[b] = msgs[j].type

OnVirus(e, vs) == \E j \in 1..Len(vs) : vs[j].x = e.x

Feeds(msgs) == SelectSeq(msgs, LAMBDA m : m.type = "feed_virus")

(* C31: in one pass of checkEjectedCollisions every local ejected mass is  *)
(* consumed by at most one eater, tested in the order virus, player,       *)
(* splits.  A projectile on a virus is removed, causes one feed_virus      *)
(* intent for a virus there (transmitted while the socket is open) and    *)
(* adds mass to no cell; any other projectile on the player, or else on   *)
(* the first split there, is removed and adds exactly its mass to that    *)
(* cell; a projectile that hits nothing stays in the list unchanged.      *)
(* Positions are those the collision pass sees.                            *)
C31_EjectedFeedsOneEater ==
    [][last'.op = "frame" =>
          LET Free(e) == ~OnVirus(e, viruses)
              Hits(e) == OnVirus(e, viruses)
              Stays(e) == Free(e) /\ EaterAt(e.x, player', splits') = -1
              free == SelectSeq(ejected, Free)
              fed == SelectSeq(ejected, Hits)
          IN /\ player'.mass = QAdd(player.mass, GainOf(0, free, player', splits'))
             /\ Len(splits') = Len(splits)
             /\ \A i \in 1..Len(splits) :
                   splits'[i].mass =
                       QAdd(splits[i].mass, GainOf(i, free, player', splits'))
             /\ ejected' = SelectSeq(ejected, Stays)
             /\ Len(Feeds(sent')) = IF ws = "open" THEN Len(fed) ELSE 0
             /\ \A j \in 1..Len(Feeds(sent')) :
                   \E v \in 1..Len(viruses), i \in 1..Len(fed) :
                       /\ viruses[v].id = Feeds(sent')[j].id
                       /\ viruses[v].x = fed[i].x]_vars

C31_VirusFedBeforePlayer ==
    /\ last.op = "frame"
    /\ Len(Feeds(sent)) = 1
    /\ OnVirus(player, viruses)
    /\ player.mass = Q(25)
    /\ Len(splits) = 1
    /\ splits[1].mass = Q(20 + EJECT_MASS_GAIN)
    /\ ejected = <<>>

ExplosionSize(m, count) ==
    IF MAX_CELLS - (count + 1) <= 0 THEN 0
    ELSE Max(4, Min(FloorDiv12_5(m), MAX_CELLS - (count + 1)))

(* the splits there are after the viruses vs[i] down to vs[1] have been   *)
(* met by the player pl and the cells cs, each explosion counting the     *)
(* count splits that exist when it happens                                 *)
RECURSIVE SplitsAfter(_, _, _, _, _)
SplitsAfter(pl, cs, vs, i, count) ==
    IF i = 0 THEN count
    ELSE LET S == {j \in 1..Len(cs) : CanExplode(cs[j], vs[i])}
             m == IF CanExplode(pl, vs[i]) THEN pl.mass
                  ELSE cs[CHOOSE j \in S : \A k \in S : j <= k].mass
         IN IF CanExplode(pl, vs[i]) \/ S # {}
            THEN SplitsAfter(pl, cs, vs, i - 1, count + ExplosionSize(m, count))
            ELSE SplitsAfter(pl, cs, vs, i - 1, count)

C34_MergedSplitsLeaveOnce ==
    [][last'.op = "frame" =>
          LET Merges(c) == CanMerge(c, player, now')
              Stays(c) == ~CanMerge(c, player, now')
              Marks(s) == [i \in 1..Len(s) |-> <<s[i].born, s[i].mass>>]
          IN /\ Marks(splits') = Marks(SelectSeq(splits, Stays))
             /\ player'.mass =
                    QAdd(player.mass, QSum(Masses(SelectSeq(splits, Merges))))]_vars

C34_TwoMergedAroundOne ==
    /\ last.op = "frame"
    /\ Len(splits) = 1
    /\ splits[1].mass = Q(22)
    /\ player.mass = Q(25 + 21 + 23)

InsideWorld(c) ==
    /\ QGe(c.x, c.radius)
    /\ QGe(QSub(Q(WORLD_SIZE), c.radius), c.x)

(* C35: at the end of every frame the centre of the player and of every    *)
(* local split lies within [radius, worldSize - radius], also after the    *)
(* separation step has pushed cells apart.                                 *)
C35_CellsInsideWorld ==
    last.op = "wall" =>
        /\ InsideWorld(player)
        /\ \A i \in 1..Len(splits) : InsideWorld(splits[i])

PelletIds(msgs) ==
    {msgs[j].id : j \in {k \in 1..Len(msgs) : msgs[k].type = "consume_pellet"}}

C38_DisconnectStartsNoTimer ==
    [][last'.op \in {"disconnect", "dropped_close"} =>
          reconnectInterval' = FALSE]_vars

HasVisualMass(c) == "visualMass" \in DOMAIN c

(* C40: in every reachable state the player and every split carry a        *)
(* defined visual mass (the player from session start and after a death    *)
(* reset, a split from its creation by handleSplit or explodeOnVirus)      *)
C40_VisualMassDefined ==
    /\ HasVisualMass(player)
    /\ \A i \in 1..Len(splits) : HasVisualMass(splits[i])

C16_ThreeStepsCloser ==
    /\ last.op = "smooth"
    /\ Gap(player) = [n |-> 36501, d |-> 390625]
    /\ \E i \in 1..Len(splits) : Gap(splits[i]) = [n |-> -36501, d |-> 390625]
====
